---- MODULE Spec2Model ----
(***************************************************************************)
(* Vietnamese text validator and conservative fixer                        *)
(* (src/preprocess/vn_validator.py).                                       *)
(*                                                                         *)
(* A text is a sequence of Unicode code points (a Python str).  Indices    *)
(* reported by the program (issue spans, tone positions, resolver results) *)
(* are 0-based as in the source; At(s, i) reads the i-th character.        *)
(*                                                                         *)
(* The Unicode database is modelled by its tables restricted to Universe:  *)
(* the code points whose canonical decomposition is built from the base    *)
(* letters a e i o u y b c d h m n p q A O U Y D I, d-stroke, hyphen,      *)
(* space, digit one, the six invisible code points, the Cyrillic and Greek *)
(* homoglyphs, and the combining marks grave, acute, tilde, hook above,    *)
(* dot below, circumflex, breve, horn, diaeresis, caron, dot above and     *)
(* short stroke overlay.  Universe is closed under NFD, NFC and lower();   *)
(* lower() of U+0130 is two code points, so lower() can lengthen a text.   *)
(***************************************************************************)
EXTENDS Integers, Sequences, FiniteSets, TLC

VARIABLES raw_text, pc, nfc_text, initial_report, fixed, final_report, reapplied

vars == <<raw_text, pc, nfc_text, initial_report, fixed, final_report, reapplied>>

(***************************************************************************)
(* Unicode character database (unicodedata), restricted to Universe.       *)
(***************************************************************************)
Universe ==
  {
    32, 45, 49, 65, 68, 73, 79, 85, 89, 97, 98, 99, 100, 101, 104, 105, 109, 110, 111, 112,
    113, 117, 121, 160, 192, 193, 194, 195, 196, 204, 205, 206, 207, 210, 211, 212, 213, 214,
    217, 218, 219, 220, 221, 224, 225, 226, 227, 228, 232, 233, 234, 235, 236, 237, 238, 239,
    241, 242, 243, 244, 245, 246, 249, 250, 251, 252, 253, 255, 258, 259, 263, 265, 267, 269,
    270, 271, 272, 273, 277, 279, 283, 293, 296, 297, 300, 301, 304, 324, 328, 334, 335, 360,
    361, 364, 365, 374, 375, 376, 416, 417, 431, 432, 461, 462, 463, 464, 465, 466, 467, 468,
    471, 472, 473, 474, 475, 476, 505, 543, 550, 551, 558, 559, 768, 769, 770, 771, 774, 775,
    776, 777, 780, 795, 803, 821, 940, 941, 945, 949, 959, 969, 972, 974, 1072, 1077, 1088,
    1089, 1104, 1105, 1110, 1111, 1233, 1235, 1239, 7683, 7685, 7690, 7691, 7692, 7693, 7715,
    7717, 7719, 7726, 7727, 7743, 7745, 7747, 7749, 7751, 7756, 7757, 7758, 7759, 7765, 7767,
    7800, 7801, 7822, 7823, 7840, 7841, 7842, 7843, 7844, 7845, 7846, 7847, 7848, 7849, 7850,
    7851, 7852, 7853, 7854, 7855, 7856, 7857, 7858, 7859, 7860, 7861, 7862, 7863, 7865, 7867,
    7869, 7871, 7873, 7875, 7877, 7879, 7880, 7881, 7882, 7883, 7884, 7885, 7886, 7887, 7888,
    7889, 7890, 7891, 7892, 7893, 7894, 7895, 7896, 7897, 7898, 7899, 7900, 7901, 7902, 7903,
    7904, 7905, 7906, 7907, 7908, 7909, 7910, 7911, 7912, 7913, 7914, 7915, 7916, 7917, 7918,
    7919, 7920, 7921, 7922, 7923, 7924, 7925, 7926, 7927, 7928, 7929, 8048, 8050, 8056, 8060,
    8112, 8203, 8204, 8205, 8288, 65279
  }

\* Rows of three: a code point, then the two code points of its full canonical decomposition.
NFD_ROWS ==
  <<
    192, 65, 768, 193, 65, 769, 194, 65, 770, 195, 65, 771, 196, 65, 776, 204, 73, 768,
    205, 73, 769, 206, 73, 770, 207, 73, 776, 210, 79, 768, 211, 79, 769, 212, 79, 770,
    213, 79, 771, 214, 79, 776, 217, 85, 768, 218, 85, 769, 219, 85, 770, 220, 85, 776,
    221, 89, 769, 224, 97, 768, 225, 97, 769, 226, 97, 770, 227, 97, 771, 228, 97, 776,
    232, 101, 768, 233, 101, 769, 234, 101, 770, 235, 101, 776, 236, 105, 768, 237, 105, 769,
    238, 105, 770, 239, 105, 776, 241, 110, 771, 242, 111, 768, 243, 111, 769, 244, 111, 770,
    245, 111, 771, 246, 111, 776, 249, 117, 768, 250, 117, 769, 251, 117, 770, 252, 117, 776,
    253, 121, 769, 255, 121, 776, 258, 65, 774, 259, 97, 774, 263, 99, 769, 265, 99, 770,
    267, 99, 775, 269, 99, 780, 270, 68, 780, 271, 100, 780, 277, 101, 774, 279, 101, 775,
    283, 101, 780, 293, 104, 770, 296, 73, 771, 297, 105, 771, 300, 73, 774, 301, 105, 774,
    304, 73, 775, 324, 110, 769, 328, 110, 780, 334, 79, 774, 335, 111, 774, 360, 85, 771,
    361, 117, 771, 364, 85, 774, 365, 117, 774, 374, 89, 770, 375, 121, 770, 376, 89, 776,
    416, 79, 795, 417, 111, 795, 431, 85, 795, 432, 117, 795, 461, 65, 780, 462, 97, 780,
    463, 73, 780, 464, 105, 780, 465, 79, 780, 466, 111, 780, 467, 85, 780, 468, 117, 780,
    505, 110, 768, 543, 104, 780, 550, 65, 775, 551, 97, 775, 558, 79, 775, 559, 111, 775,
    940, 945, 769, 941, 949, 769, 972, 959, 769, 974, 969, 769, 1104, 1077, 768,
    1105, 1077, 776, 1111, 1110, 776, 1233, 1072, 774, 1235, 1072, 776, 1239, 1077, 774,
    7683, 98, 775, 7685, 98, 803, 7690, 68, 775, 7691, 100, 775, 7692, 68, 803, 7693, 100, 803,
    7715, 104, 775, 7717, 104, 803, 7719, 104, 776, 7743, 109, 769, 7745, 109, 775,
    7747, 109, 803, 7749, 110, 775, 7751, 110, 803, 7765, 112, 769, 7767, 112, 775,
    7822, 89, 775, 7823, 121, 775, 7840, 65, 803, 7841, 97, 803, 7842, 65, 777, 7843, 97, 777,
    7865, 101, 803, 7867, 101, 777, 7869, 101, 771, 7880, 73, 777, 7881, 105, 777,
    7882, 73, 803, 7883, 105, 803, 7884, 79, 803, 7885, 111, 803, 7886, 79, 777,
    7887, 111, 777, 7908, 85, 803, 7909, 117, 803, 7910, 85, 777, 7911, 117, 777,
    7922, 89, 768, 7923, 121, 768, 7924, 89, 803, 7925, 121, 803, 7926, 89, 777,
    7927, 121, 777, 7928, 89, 771, 7929, 121, 771, 8048, 945, 768, 8050, 949, 768,
    8056, 959, 768, 8060, 969, 768, 8112, 945, 774
  >>

\* Rows of four: a code point, then the three code points of its full canonical decomposition.
NFD_ROWS_LONG ==
  <<
    471, 85, 776, 769, 472, 117, 776, 769, 473, 85, 776, 780, 474, 117, 776, 780,
    475, 85, 776, 768, 476, 117, 776, 768, 7726, 73, 776, 769, 7727, 105, 776, 769,
    7756, 79, 771, 769, 7757, 111, 771, 769, 7758, 79, 771, 776, 7759, 111, 771, 776,
    7800, 85, 771, 769, 7801, 117, 771, 769, 7844, 65, 770, 769, 7845, 97, 770, 769,
    7846, 65, 770, 768, 7847, 97, 770, 768, 7848, 65, 770, 777, 7849, 97, 770, 777,
    7850, 65, 770, 771, 7851, 97, 770, 771, 7852, 65, 803, 770, 7853, 97, 803, 770,
    7854, 65, 774, 769, 7855, 97, 774, 769, 7856, 65, 774, 768, 7857, 97, 774, 768,
    7858, 65, 774, 777, 7859, 97, 774, 777, 7860, 65, 774, 771, 7861, 97, 774, 771,
    7862, 65, 803, 774, 7863, 97, 803, 774, 7871, 101, 770, 769, 7873, 101, 770, 768,
    7875, 101, 770, 777, 7877, 101, 770, 771, 7879, 101, 803, 770, 7888, 79, 770, 769,
    7889, 111, 770, 769, 7890, 79, 770, 768, 7891, 111, 770, 768, 7892, 79, 770, 777,
    7893, 111, 770, 777, 7894, 79, 770, 771, 7895, 111, 770, 771, 7896, 79, 803, 770,
    7897, 111, 803, 770, 7898, 79, 795, 769, 7899, 111, 795, 769, 7900, 79, 795, 768,
    7901, 111, 795, 768, 7902, 79, 795, 777, 7903, 111, 795, 777, 7904, 79, 795, 771,
    7905, 111, 795, 771, 7906, 79, 795, 803, 7907, 111, 795, 803, 7912, 85, 795, 769,
    7913, 117, 795, 769, 7914, 85, 795, 768, 7915, 117, 795, 768, 7916, 85, 795, 777,
    7917, 117, 795, 777, 7918, 85, 795, 771, 7919, 117, 795, 771, 7920, 85, 795, 803,
    7921, 117, 795, 803
  >>

NFD_PAIRS ==
  {<<NFD_ROWS[3 * i - 2], <<NFD_ROWS[3 * i - 1], NFD_ROWS[3 * i]>>>> : i \in 1..(Len(NFD_ROWS) \div 3)}
    \cup {<<NFD_ROWS_LONG[4 * i - 3],
             <<NFD_ROWS_LONG[4 * i - 2], NFD_ROWS_LONG[4 * i - 1], NFD_ROWS_LONG[4 * i]>>>> :
             i \in 1..(Len(NFD_ROWS_LONG) \div 4)}

\* Rows of three: first and second code point, then their primary composite.
COMPOSITION_ROWS ==
  <<
    65, 768, 192, 65, 769, 193, 65, 770, 194, 65, 771, 195, 65, 774, 258, 65, 775, 550,
    65, 776, 196, 65, 777, 7842, 65, 780, 461, 65, 803, 7840, 68, 775, 7690, 68, 780, 270,
    68, 803, 7692, 73, 768, 204, 73, 769, 205, 73, 770, 206, 73, 771, 296, 73, 774, 300,
    73, 775, 304, 73, 776, 207, 73, 777, 7880, 73, 780, 463, 73, 803, 7882, 79, 768, 210,
    79, 769, 211, 79, 770, 212, 79, 771, 213, 79, 774, 334, 79, 775, 558, 79, 776, 214,
    79, 777, 7886, 79, 780, 465, 79, 795, 416, 79, 803, 7884, 85, 768, 217, 85, 769, 218,
    85, 770, 219, 85, 771, 360, 85, 774, 364, 85, 776, 220, 85, 777, 7910, 85, 780, 467,
    85, 795, 431, 85, 803, 7908, 89, 768, 7922, 89, 769, 221, 89, 770, 374, 89, 771, 7928,
    89, 775, 7822, 89, 776, 376, 89, 777, 7926, 89, 803, 7924, 97, 768, 224, 97, 769, 225,
    97, 770, 226, 97, 771, 227, 97, 774, 259, 97, 775, 551, 97, 776, 228, 97, 777, 7843,
    97, 780, 462, 97, 803, 7841, 98, 775, 7683, 98, 803, 7685, 99, 769, 263, 99, 770, 265,
    99, 775, 267, 99, 780, 269, 100, 775, 7691, 100, 780, 271, 100, 803, 7693, 101, 768, 232,
    101, 769, 233, 101, 770, 234, 101, 771, 7869, 101, 774, 277, 101, 775, 279, 101, 776, 235,
    101, 777, 7867, 101, 780, 283, 101, 803, 7865, 104, 770, 293, 104, 775, 7715,
    104, 776, 7719, 104, 780, 543, 104, 803, 7717, 105, 768, 236, 105, 769, 237, 105, 770, 238,
    105, 771, 297, 105, 774, 301, 105, 776, 239, 105, 777, 7881, 105, 780, 464, 105, 803, 7883,
    109, 769, 7743, 109, 775, 7745, 109, 803, 7747, 110, 768, 505, 110, 769, 324,
    110, 771, 241, 110, 775, 7749, 110, 780, 328, 110, 803, 7751, 111, 768, 242, 111, 769, 243,
    111, 770, 244, 111, 771, 245, 111, 774, 335, 111, 775, 559, 111, 776, 246, 111, 777, 7887,
    111, 780, 466, 111, 795, 417, 111, 803, 7885, 112, 769, 7765, 112, 775, 7767,
    117, 768, 249, 117, 769, 250, 117, 770, 251, 117, 771, 361, 117, 774, 365, 117, 776, 252,
    117, 777, 7911, 117, 780, 468, 117, 795, 432, 117, 803, 7909, 121, 768, 7923,
    121, 769, 253, 121, 770, 375, 121, 771, 7929, 121, 775, 7823, 121, 776, 255,
    121, 777, 7927, 121, 803, 7925, 194, 768, 7846, 194, 769, 7844, 194, 771, 7850,
    194, 777, 7848, 207, 769, 7726, 212, 768, 7890, 212, 769, 7888, 212, 771, 7894,
    212, 777, 7892, 213, 769, 7756, 213, 776, 7758, 220, 768, 475, 220, 769, 471,
    220, 780, 473, 226, 768, 7847, 226, 769, 7845, 226, 771, 7851, 226, 777, 7849,
    234, 768, 7873, 234, 769, 7871, 234, 771, 7877, 234, 777, 7875, 239, 769, 7727,
    244, 768, 7891, 244, 769, 7889, 244, 771, 7895, 244, 777, 7893, 245, 769, 7757,
    245, 776, 7759, 252, 768, 476, 252, 769, 472, 252, 780, 474, 258, 768, 7856,
    258, 769, 7854, 258, 771, 7860, 258, 777, 7858, 259, 768, 7857, 259, 769, 7855,
    259, 771, 7861, 259, 777, 7859, 360, 769, 7800, 361, 769, 7801, 416, 768, 7900,
    416, 769, 7898, 416, 771, 7904, 416, 777, 7902, 416, 803, 7906, 417, 768, 7901,
    417, 769, 7899, 417, 771, 7905, 417, 777, 7903, 417, 803, 7907, 431, 768, 7914,
    431, 769, 7912, 431, 771, 7918, 431, 777, 7916, 431, 803, 7920, 432, 768, 7915,
    432, 769, 7913, 432, 771, 7919, 432, 777, 7917, 432, 803, 7921, 945, 768, 8048,
    945, 769, 940, 945, 774, 8112, 949, 768, 8050, 949, 769, 941, 959, 768, 8056,
    959, 769, 972, 969, 768, 8060, 969, 769, 974, 1072, 774, 1233, 1072, 776, 1235,
    1077, 768, 1104, 1077, 774, 1239, 1077, 776, 1105, 1110, 776, 1111, 7840, 770, 7852,
    7840, 774, 7862, 7841, 770, 7853, 7841, 774, 7863, 7865, 770, 7879, 7884, 770, 7896,
    7885, 770, 7897
  >>

COMPOSITION_PAIRS ==
  {<<COMPOSITION_ROWS[3 * i - 2], COMPOSITION_ROWS[3 * i - 1], COMPOSITION_ROWS[3 * i]>> :
     i \in 1..(Len(COMPOSITION_ROWS) \div 3)}

CCC_PAIRS ==
  {
    <<768, 230>>, <<769, 230>>, <<770, 230>>, <<771, 230>>, <<774, 230>>, <<775, 230>>,
    <<776, 230>>, <<777, 230>>, <<780, 230>>, <<795, 216>>, <<803, 220>>, <<821, 1>>
  }

ALPHA_CHARS ==
  {
    65, 68, 73, 79, 85, 89, 97, 98, 99, 100, 101, 104, 105, 109, 110, 111, 112, 113, 117, 121,
    192, 193, 194, 195, 196, 204, 205, 206, 207, 210, 211, 212, 213, 214, 217, 218, 219, 220,
    221, 224, 225, 226, 227, 228, 232, 233, 234, 235, 236, 237, 238, 239, 241, 242, 243, 244,
    245, 246, 249, 250, 251, 252, 253, 255, 258, 259, 263, 265, 267, 269, 270, 271, 272, 273,
    277, 279, 283, 293, 296, 297, 300, 301, 304, 324, 328, 334, 335, 360, 361, 364, 365, 374,
    375, 376, 416, 417, 431, 432, 461, 462, 463, 464, 465, 466, 467, 468, 471, 472, 473, 474,
    475, 476, 505, 543, 550, 551, 558, 559, 940, 941, 945, 949, 959, 969, 972, 974, 1072, 1077,
    1088, 1089, 1104, 1105, 1110, 1111, 1233, 1235, 1239, 7683, 7685, 7690, 7691, 7692, 7693,
    7715, 7717, 7719, 7726, 7727, 7743, 7745, 7747, 7749, 7751, 7756, 7757, 7758, 7759, 7765,
    7767, 7800, 7801, 7822, 7823, 7840, 7841, 7842, 7843, 7844, 7845, 7846, 7847, 7848, 7849,
    7850, 7851, 7852, 7853, 7854, 7855, 7856, 7857, 7858, 7859, 7860, 7861, 7862, 7863, 7865,
    7867, 7869, 7871, 7873, 7875, 7877, 7879, 7880, 7881, 7882, 7883, 7884, 7885, 7886, 7887,
    7888, 7889, 7890, 7891, 7892, 7893, 7894, 7895, 7896, 7897, 7898, 7899, 7900, 7901, 7902,
    7903, 7904, 7905, 7906, 7907, 7908, 7909, 7910, 7911, 7912, 7913, 7914, 7915, 7916, 7917,
    7918, 7919, 7920, 7921, 7922, 7923, 7924, 7925, 7926, 7927, 7928, 7929, 8048, 8050, 8056,
    8060, 8112
  }

\* Rows of two: a code point, then its one-code-point lowercase.
LOWER_ROWS ==
  <<
    65, 97, 68, 100, 73, 105, 79, 111, 85, 117, 89, 121, 192, 224, 193, 225, 194, 226,
    195, 227, 196, 228, 204, 236, 205, 237, 206, 238, 207, 239, 210, 242, 211, 243, 212, 244,
    213, 245, 214, 246, 217, 249, 218, 250, 219, 251, 220, 252, 221, 253, 258, 259, 270, 271,
    272, 273, 296, 297, 300, 301, 334, 335, 360, 361, 364, 365, 374, 375, 376, 255, 416, 417,
    431, 432, 461, 462, 463, 464, 465, 466, 467, 468, 471, 472, 473, 474, 475, 476, 550, 551,
    558, 559, 7690, 7691, 7692, 7693, 7726, 7727, 7756, 7757, 7758, 7759, 7800, 7801,
    7822, 7823, 7840, 7841, 7842, 7843, 7844, 7845, 7846, 7847, 7848, 7849, 7850, 7851,
    7852, 7853, 7854, 7855, 7856, 7857, 7858, 7859, 7860, 7861, 7862, 7863, 7880, 7881,
    7882, 7883, 7884, 7885, 7886, 7887, 7888, 7889, 7890, 7891, 7892, 7893, 7894, 7895,
    7896, 7897, 7898, 7899, 7900, 7901, 7902, 7903, 7904, 7905, 7906, 7907, 7908, 7909,
    7910, 7911, 7912, 7913, 7914, 7915, 7916, 7917, 7918, 7919, 7920, 7921, 7922, 7923,
    7924, 7925, 7926, 7927, 7928, 7929
  >>

\* Code points whose lowercase is more than one code point.
LOWER_SPECIAL ==
  {
    <<304, <<105, 775>>>>
  }

LOWER_PAIRS ==
  {<<LOWER_ROWS[2 * i - 1], <<LOWER_ROWS[2 * i]>>>> : i \in 1..(Len(LOWER_ROWS) \div 2)} \cup LOWER_SPECIAL

NAME_WORD_PAIRS ==
  {
    <<940, "GREEK">>, <<941, "GREEK">>, <<945, "GREEK">>, <<949, "GREEK">>, <<959, "GREEK">>,
    <<969, "GREEK">>, <<972, "GREEK">>, <<974, "GREEK">>, <<1072, "CYRILLIC">>,
    <<1077, "CYRILLIC">>, <<1088, "CYRILLIC">>, <<1089, "CYRILLIC">>, <<1104, "CYRILLIC">>,
    <<1105, "CYRILLIC">>, <<1110, "CYRILLIC">>, <<1111, "CYRILLIC">>, <<1233, "CYRILLIC">>,
    <<1235, "CYRILLIC">>, <<1239, "CYRILLIC">>, <<8048, "GREEK">>, <<8050, "GREEK">>,
    <<8056, "GREEK">>, <<8060, "GREEK">>, <<8112, "GREEK">>
  }

NFD_TABLE == [c \in {p[1] : p \in NFD_PAIRS} |-> (CHOOSE p \in NFD_PAIRS : p[1] = c)[2]]

CCC_TABLE == [c \in {p[1] : p \in CCC_PAIRS} |-> (CHOOSE p \in CCC_PAIRS : p[1] = c)[2]]

LOWER_TABLE == [c \in {p[1] : p \in LOWER_PAIRS} |-> (CHOOSE p \in LOWER_PAIRS : p[1] = c)[2]]

COMPOSITION_TABLE ==
  [k \in {<<p[1], p[2]>> : p \in COMPOSITION_PAIRS} |->
     (CHOOSE p \in COMPOSITION_PAIRS : <<p[1], p[2]>> = k)[3]]

\* unicodedata.combining(ch): the canonical combining class, 0 for a starter.
combining(ch) == IF ch \in DOMAIN CCC_TABLE THEN CCC_TABLE[ch] ELSE 0

\* str.isalpha() of one character.
isalpha(ch) == ch \in ALPHA_CHARS


\* The words of the script list that occur in unicodedata.name(ch).
name_words(ch) == {p[2] : p \in {q \in NAME_WORD_PAIRS : q[1] = ch}}

\* Python indexing and slicing, 0-based, end exclusive.
At(s, i) == s[i + 1]

Slice(s, a, b) == SubSeq(s, a + 1, b)

Max(a, b) == IF a >= b THEN a ELSE b

Min(a, b) == IF a <= b THEN a ELSE b

RECURSIVE Concat(_)
\* "".join(parts) for a sequence of strings.
Concat(parts) == IF parts = <<>> THEN <<>> ELSE Head(parts) \o Concat(Tail(parts))

\* c in s, for a character c and a string s.
InStr(c, s) == \E i \in 1..Len(s) : s[i] = c

\* low.find(pat): the first 0-based position of pat in s, or -1.
Find(s, pat) ==
  LET hits == {i \in 0..(Len(s) - Len(pat)) : Slice(s, i, i + Len(pat)) = pat}
  IN  IF hits = {} THEN 0 - 1 ELSE CHOOSE i \in hits : \A j \in hits : i <= j

\* sub in s, for two strings.
Contains(s, sub) == Find(s, sub) # 0 - 1

\* str.lower() of one character: a string, of two code points for U+0130.
lower_char(ch) == IF ch \in DOMAIN LOWER_TABLE THEN LOWER_TABLE[ch] ELSE <<ch>>

\* str.lower() of a string.
lower(s) == Concat([i \in 1..Len(s) |-> lower_char(s[i])])

\* unicodedata.normalize("NFD", ch) of one character: base then marks.
nfd_char(ch) == IF ch \in DOMAIN NFD_TABLE THEN NFD_TABLE[ch] ELSE <<ch>>

RECURSIVE CanonicalInsert(_, _)
\* Canonical ordering: a non-starter moves left past non-starters of higher class.
CanonicalInsert(acc, m) ==
  IF \/ acc = <<>>
     \/ combining(m) = 0
     \/ combining(acc[Len(acc)]) = 0
     \/ combining(acc[Len(acc)]) <= combining(m)
  THEN Append(acc, m)
  ELSE Append(CanonicalInsert(SubSeq(acc, 1, Len(acc) - 1), m), acc[Len(acc)])

RECURSIVE CanonicalOrder(_, _)
CanonicalOrder(acc, s) ==
  IF s = <<>> THEN acc ELSE CanonicalOrder(CanonicalInsert(acc, Head(s)), Tail(s))

\* unicodedata.normalize("NFD", s).
NFD(s) == CanonicalOrder(<<>>, Concat([i \in 1..Len(s) |-> nfd_char(s[i])]))

RECURSIVE ComposeFrom(_, _, _, _)
\* Canonical composition of a canonically ordered string.  out is the result
\* so far, sp the position in out of the last starter (0 when none), lastClass
\* the class of the last character kept after that starter (256: blocked).
ComposeFrom(out, sp, lastClass, s) ==
  IF s = <<>> THEN out
  ELSE LET ch == Head(s)
           chClass == combining(ch)
           key == IF sp = 0 THEN <<0, 0>> ELSE <<out[sp], ch>>
       IN  IF /\ sp > 0
              /\ key \in DOMAIN COMPOSITION_TABLE
              /\ (lastClass < chClass \/ lastClass = 0)
           THEN ComposeFrom([out EXCEPT ![sp] = COMPOSITION_TABLE[key]],
                            sp, lastClass, Tail(s))
           ELSE IF chClass = 0
                THEN ComposeFrom(Append(out, ch), Len(out) + 1, 0, Tail(s))
                ELSE ComposeFrom(Append(out, ch), sp, chClass, Tail(s))

\* unicodedata.normalize("NFC", s).
NFC(s) == ComposeFrom(<<>>, 0, 256, NFD(s))

(***************************************************************************)
(* Vietnamese definitions.                                                 *)
(***************************************************************************)

\* None, the resolver's "no verdict".
None == 0 - 1

\* ZWSP, ZWNJ, ZWJ, WJ, NBSP, BOM.
INVISIBLE_CODEPOINTS == {8203, 8204, 8205, 8288, 160, 65279}

\* acute, grave, hook above, tilde, dot below.
COMBINING_TONE_MARKS == {769, 768, 777, 771, 803}

\* circumflex, breve, horn.
COMBINING_MAJOR_VIET == {770, 774, 795}

ALLOWED_COMBINING == COMBINING_TONE_MARKS \cup COMBINING_MAJOR_VIET

\* set("aeiouyAEIOUY")
VOWELS_BASE == {97, 101, 105, 111, 117, 121, 65, 69, 73, 79, 85, 89}

\* The code points of the string literal of precomposed Vietnamese vowels.
VIET_VOWEL_PRECOMPOSED ==
  {97, 259, 226, 101, 234, 105, 111, 244, 417, 117, 432, 121,
   65, 258, 194, 69, 202, 73, 79, 212, 416, 85, 431, 89}

\* "aeiouy"
LOWER_VOWELS == <<97, 101, 105, 111, 117, 121>>

NON_LATIN_WORDS ==
  {"GREEK", "CYRILLIC", "HEBREW", "ARABIC", "DEVANAGARI", "CJK", "HIRAGANA", "KATAKANA"}

is_clearly_non_latin(ch) == isalpha(ch) /\ (name_words(ch) \cap NON_LATIN_WORDS) # {}

radius == 10

local_snippet(text, start, end) ==
  Slice(text, Max(0, start - radius), Min(Len(text), end + radius))

\* ValidationIssue.  message is the fixed part of the message text and arg
\* the value formatted into it (a code point, a character or a token).
ValidationIssue(issue_type, message, arg, start, end, text) ==
  [issue_type |-> issue_type, message |-> message, arg |-> arg,
   start |-> start, end |-> end, snippet |-> local_snippet(text, start, end)]

\* The base letter and the combining marks of one character.
base_of(ch) == nfd_char(ch)[1]

marks_of(ch) == Tail(nfd_char(ch))

RECURSIVE Filter(_, _)
\* [m for m in s if m in keep]
Filter(s, keep) ==
  IF s = <<>> THEN <<>>
  ELSE (IF Head(s) \in keep THEN <<Head(s)>> ELSE <<>>) \o Filter(Tail(s), keep)

(***************************************************************************)
(* Validator scans.                                                        *)
(***************************************************************************)

\* A faulty variant: the span is counted from 1 instead of from 0.
scan_invisible_chars_one_based(text) ==
  Concat([k \in 1..Len(text) |->
    IF text[k] \in INVISIBLE_CODEPOINTS
    THEN <<ValidationIssue("INVISIBLE_CHAR", "Zero-width or non-breaking character detected.",
                           <<text[k]>>, k, k + 1, text)>>
    ELSE <<>>])

scan_invisible_chars(text) ==
  Concat([k \in 1..Len(text) |->
    IF text[k] \in INVISIBLE_CODEPOINTS
    THEN <<ValidationIssue("INVISIBLE_CHAR", "Zero-width or non-breaking character detected.",
                           <<text[k]>>, k - 1, k, text)>>
    ELSE <<>>])

scan_non_latin_confusables(text) ==
  Concat([k \in 1..Len(text) |->
    IF is_clearly_non_latin(text[k])
    THEN <<ValidationIssue("CONFUSABLE", "Non-Latin letter (likely confusable) found.",
                           <<text[k]>>, k - 1, k, text)>>
    ELSE <<>>])

\* A faulty variant: the marks outside the Vietnamese set of one character are
\* reported together, by a single issue.
combining_issues_at_one_per_rule(text, i) ==
  LET ch == At(text, i)
      base == base_of(ch)
      comb == marks_of(ch)
      tone_count == Len(Filter(comb, COMBINING_TONE_MARKS))
      unsupported == Filter(comb, {c \in Universe : c \notin ALLOWED_COMBINING})
  IN  IF ~isalpha(ch) THEN <<>>
      ELSE (IF tone_count > 1
            THEN <<ValidationIssue("COMBINING", "A letter carries more than one tone mark.",
                                   <<>>, i, i + 1, text)>>
            ELSE <<>>)
           \o
           (IF comb # <<>> /\ ~Contains(LOWER_VOWELS, lower_char(base))
            THEN <<ValidationIssue("COMBINING",
                                   "Combining mark(s) applied on a non-vowel letter.",
                                   <<>>, i, i + 1, text)>>
            ELSE <<>>)
           \o
           (IF unsupported # <<>>
            THEN <<ValidationIssue("COMBINING", "Unsupported combining mark for Vietnamese.",
                                   <<unsupported[1]>>, i, i + 1, text)>>
            ELSE <<>>)

\* The issues of scan_combining_sequences for the character at 0-based index i.
combining_issues_at(text, i) ==
  LET ch == At(text, i)
      base == base_of(ch)
      comb == marks_of(ch)
      tone_count == Len(Filter(comb, COMBINING_TONE_MARKS))
      unsupported == Filter(comb, {c \in Universe : c \notin ALLOWED_COMBINING})
  IN  IF ~isalpha(ch) THEN <<>>
      ELSE (IF tone_count > 1
            THEN <<ValidationIssue("COMBINING", "A letter carries more than one tone mark.",
                                   <<>>, i, i + 1, text)>>
            ELSE <<>>)
           \o
           (IF comb # <<>> /\ ~Contains(LOWER_VOWELS, lower_char(base))
            THEN <<ValidationIssue("COMBINING",
                                   "Combining mark(s) applied on a non-vowel letter.",
                                   <<>>, i, i + 1, text)>>
            ELSE <<>>)
           \o
           [k \in 1..Len(unsupported) |->
              ValidationIssue("COMBINING", "Unsupported combining mark for Vietnamese.",
                              <<unsupported[k]>>, i, i + 1, text)]

scan_combining_sequences(text) ==
  Concat([k \in 1..Len(text) |-> combining_issues_at(text, k - 1)])

\* A faulty variant: the check for the horn is missing, so that a letter with
\* the horn is reported too.
fake_letter_issues_at_ignores_horn(text, idx) ==
  LET ch == At(text, idx)
      base == base_of(ch)
      comb == marks_of(ch)
      suspicious == Filter(comb, {c \in Universe : c \notin ALLOWED_COMBINING})
      non_viet == Filter(comb, {c \in Universe : c \notin (ALLOWED_COMBINING \ {795})})
  IN  (IF base \in {100, 68} /\ comb # <<>> /\ suspicious # <<>>
       THEN <<ValidationIssue("FAKE_LETTER", "Possible fake d-stroke constructed by overlays.",
                              <<>>, idx, idx + 1, text)>>
       ELSE <<>>)
      \o
      (IF base \in {111, 79, 117, 85} /\ comb # <<>> /\ non_viet # <<>>
       THEN <<ValidationIssue("FAKE_LETTER",
                              "Suspicious attempt to mimic o-horn/u-horn without using horn.",
                              <<>>, idx, idx + 1, text)>>
       ELSE <<>>)

\* The issues of scan_fake_letters for the character at 0-based index idx.
fake_letter_issues_at(text, idx) ==
  LET ch == At(text, idx)
      base == base_of(ch)
      comb == marks_of(ch)
      suspicious == Filter(comb, {c \in Universe : c \notin ALLOWED_COMBINING})
      has_horn == InStr(795, comb)
      non_viet == Filter(comb, {c \in Universe : c \notin (ALLOWED_COMBINING \ {795})})
  IN  (IF base \in {100, 68} /\ comb # <<>> /\ suspicious # <<>>
       THEN <<ValidationIssue("FAKE_LETTER", "Possible fake d-stroke constructed by overlays.",
                              <<>>, idx, idx + 1, text)>>
       ELSE <<>>)
      \o
      (IF base \in {111, 79, 117, 85} /\ comb # <<>> /\ ~has_horn /\ non_viet # <<>>
       THEN <<ValidationIssue("FAKE_LETTER",
                              "Suspicious attempt to mimic o-horn/u-horn without using horn.",
                              <<>>, idx, idx + 1, text)>>
       ELSE <<>>)

scan_fake_letters(text) ==
  Concat([k \in 1..Len(text) |-> fake_letter_issues_at(text, k - 1)])

\* One character of the class [A-Za-z\u00C0-\u1EF9\-].
InTokenClass(c) == c \in 65..90 \/ c \in 97..122 \/ c \in 192..7929 \/ c = 45

RECURSIVE MatchEnd(_, _)
\* The end of the greedy match [..]+ that starts at pos.
MatchEnd(text, pos) ==
  IF pos < Len(text) /\ InTokenClass(At(text, pos)) THEN MatchEnd(text, pos + 1) ELSE pos

RECURSIVE finditer_from(_, _)
finditer_from(text, pos) ==
  IF pos >= Len(text) THEN <<>>
  ELSE IF ~InTokenClass(At(text, pos)) THEN finditer_from(text, pos + 1)
  ELSE LET e == MatchEnd(text, pos)
       IN  <<[start |-> pos, end |-> e, group |-> Slice(text, pos, e)]>>
           \o finditer_from(text, e)

\* token_pattern.finditer(text): the matches, left to right.
finditer(text) == finditer_from(text, 0)

\* any(c in COMBINING_TONE_MARKS for c in marks of ch)
has_tone(ch) == \E k \in 1..Len(marks_of(ch)) : marks_of(ch)[k] \in COMBINING_TONE_MARKS

RECURSIVE tone_positions_from(_, _)
tone_positions_from(token, i) ==
  IF i >= Len(token) THEN <<>>
  ELSE (IF has_tone(At(token, i)) THEN <<i>> ELSE <<>>) \o tone_positions_from(token, i + 1)

_tone_positions_in_token(token) == tone_positions_from(token, 0)

_is_vowel_letter(ch) == base_of(ch) \in VOWELS_BASE \/ ch \in VIET_VOWEL_PRECOMPOSED

\* The smallest and the largest element of a non-empty set of integers.
MinOf(S) == CHOOSE x \in S : \A y \in S : x <= y

MaxOf(S) == CHOOSE x \in S : \A y \in S : x >= y

\* The first index whose character has a base in base_set and carries need_mark.
_find_char_with_base_and_mark(chars, base_set, need_mark) ==
  LET hits == {i \in 0..(Len(chars) - 1) :
                 base_of(At(chars, i)) \in base_set /\ InStr(need_mark, marks_of(At(chars, i)))}
  IN  IF hits = {} THEN None ELSE MinOf(hits)

\* low ends with the string suffix.
EndsWith(low, suffix) ==
  Len(low) >= Len(suffix) /\ Slice(low, Len(low) - Len(suffix), Len(low)) = suffix

\* [bcd(d-stroke)ghklmnpqrstvx] and the toned y's of the validator's pattern.
VALIDATOR_CODA_CLASS ==
  {98, 99, 100, 273, 103, 104, 107, 108, 109, 110, 112, 113, 114, 115, 116, 118, 120,
   7923, 7925, 7927, 7929, 253}

\* re.search(r"[bcd..x(toned y)]$|ng$|nh$|ch$", low)
validator_has_coda(low) ==
  \/ (Len(low) > 0 /\ low[Len(low)] \in VALIDATOR_CODA_CLASS)
  \/ EndsWith(low, <<110, 103>>)
  \/ EndsWith(low, <<110, 104>>)
  \/ EndsWith(low, <<99, 104>>)

\* Rule "oa/oe/uy" of the validator, tried in that order from the k-th pattern.
RECURSIVE validator_cluster_rule(_, _, _)
validator_cluster_rule(chars, low, pats) ==
  IF pats = <<>> THEN None
  ELSE LET start == Find(low, Head(pats))
           second == start + 1
       IN  IF start # 0 - 1 /\ second < Len(chars) /\ _is_vowel_letter(At(chars, second))
           THEN second
           ELSE validator_cluster_rule(chars, low, Tail(pats))

\* The coda rule: e-circumflex, then o-circumflex, then o-horn.
RECURSIVE validator_coda_rule(_, _)
validator_coda_rule(chars, targets) ==
  IF targets = <<>> THEN None
  ELSE LET idx == _find_char_with_base_and_mark(
                    chars, {Head(targets)[1], Head(targets)[2]}, Head(targets)[3])
       IN  IF idx # None THEN idx ELSE validator_coda_rule(chars, Tail(targets))

\* VietnameseTextValidator._expected_tone_index
_expected_tone_index(token) ==
  LET chars == token
      vowel_indices == {i \in 0..(Len(chars) - 1) : _is_vowel_letter(At(chars, i))}
      preferred == {vi \in vowel_indices :
                      \E k \in 1..Len(marks_of(At(chars, vi))) :
                         marks_of(At(chars, vi))[k] \in {770, 774, 795}}
      low == lower(token)
      has_coda == validator_has_coda(low)
      uye == IF Find(low, <<117, 121, 234>>) # 0 - 1
             THEN _find_char_with_base_and_mark(chars, {101, 69}, 770)
             ELSE None
      coda == IF has_coda
              THEN validator_coda_rule(chars, <<<<101, 69, 770>>, <<111, 79, 770>>,
                                                <<111, 79, 795>>>>)
              ELSE None
      plain_a == {i \in 0..(Len(chars) - 1) : lower_char(At(chars, i)) = <<97>>}
      open == IF /\ ~has_coda
                 /\ (\/ EndsWith(low, <<105, 97>>) \/ EndsWith(low, <<117, 97>>)
                     \/ EndsWith(low, <<432, 97>>))
                 /\ plain_a # {}
              THEN MaxOf(plain_a)
              ELSE None
  IN  IF vowel_indices = {} THEN None
      ELSE IF Cardinality(vowel_indices) = 1 THEN MinOf(vowel_indices)
      ELSE IF Cardinality(preferred) = 1 THEN MinOf(preferred)
      ELSE IF uye # None THEN uye
      ELSE IF coda # None THEN coda
      ELSE IF open # None THEN open
      ELSE validator_cluster_rule(chars, low, <<<<111, 97>>, <<111, 101>>, <<117, 121>>>>)

\* A faulty variant: the scan does not test the resolver's answer for None.
tone_placement_issues_of_flags_none(text, m) ==
  LET token == m.group
      tone_positions == _tone_positions_in_token(token)
      tone_idx == tone_positions[1]
      expected_idx == _expected_tone_index(token)
      glob_start == m.start + tone_idx
  IN  IF Len(tone_positions) # 1 THEN <<>>
      ELSE IF expected_idx # tone_idx
      THEN <<ValidationIssue("TONE_PLACEMENT", "Tone mark appears on the wrong vowel in token.",
                             token, glob_start, glob_start + 1, text)>>
      ELSE <<>>

\* A faulty variant: the span is the tone's index in the token, not in the text.
tone_placement_issues_of_token_offset(text, m) ==
  LET token == m.group
      tone_positions == _tone_positions_in_token(token)
      tone_idx == tone_positions[1]
      expected_idx == _expected_tone_index(token)
      glob_start == tone_idx
  IN  IF Len(tone_positions) # 1 THEN <<>>
      ELSE IF expected_idx # None /\ expected_idx # tone_idx
      THEN <<ValidationIssue("TONE_PLACEMENT", "Tone mark appears on the wrong vowel in token.",
                             token, glob_start, glob_start + 1, text)>>
      ELSE <<>>

\* The issues of scan_tone_placement for one match m.
tone_placement_issues_of(text, m) ==
  LET token == m.group
      tone_positions == _tone_positions_in_token(token)
      tone_idx == tone_positions[1]
      expected_idx == _expected_tone_index(token)
      glob_start == m.start + tone_idx
  IN  IF Len(tone_positions) # 1 THEN <<>>
      ELSE IF expected_idx # None /\ expected_idx # tone_idx
      THEN <<ValidationIssue("TONE_PLACEMENT", "Tone mark appears on the wrong vowel in token.",
                             token, glob_start, glob_start + 1, text)>>
      ELSE <<>>

scan_tone_placement(text) ==
  LET ms == finditer(text)
  IN  Concat([k \in 1..Len(ms) |-> tone_placement_issues_of(text, ms[k])])

\* A faulty variant: the confusable scan runs before the invisible-character scan.
validate_confusables_first(text) ==
  scan_non_latin_confusables(text)
  \o scan_invisible_chars(text)
  \o scan_combining_sequences(text)
  \o scan_fake_letters(text)
  \o scan_tone_placement(text)

\* VietnameseTextValidator.validate: the five scans, concatenated.
validate(text) ==
  scan_invisible_chars(text)
  \o scan_non_latin_confusables(text)
  \o scan_combining_sequences(text)
  \o scan_fake_letters(text)
  \o scan_tone_placement(text)

validate_vietnamese_text(text) == validate(text)

(***************************************************************************)
(* Fixers.                                                                 *)
(***************************************************************************)

\* HOMOGLYPH_SAFE_MAP: Cyrillic a, ie, er, es, i and Greek alpha, omicron,
\* epsilon to Latin a, e, p, c, i, a, o, e.
HOMOGLYPH_SAFE_MAP ==
  [c \in {1072, 1077, 1088, 1089, 1110, 945, 959, 949} |->
     CASE c = 1072 -> 97
       [] c = 1077 -> 101
       [] c = 1088 -> 112
       [] c = 1089 -> 99
       [] c = 1110 -> 105
       [] c = 945 -> 97
       [] c = 959 -> 111
       [] c = 949 -> 101]

\* A faulty variant: the strip forgets ZWSP.
strip_invisible_characters_forgets_zwsp(text) ==
  Filter(text, {c \in Universe : c \notin (INVISIBLE_CODEPOINTS \ {8203})})

strip_invisible_characters(text) ==
  Filter(text, {c \in Universe : c \notin INVISIBLE_CODEPOINTS})

\* A faulty variant: Cyrillic a is replaced by Latin o.
replace_safe_homoglyphs_wrong_letter(text) ==
  [k \in 1..Len(text) |->
     IF text[k] = 1072 THEN 111
     ELSE IF text[k] \in DOMAIN HOMOGLYPH_SAFE_MAP THEN HOMOGLYPH_SAFE_MAP[text[k]]
     ELSE text[k]]

replace_safe_homoglyphs(text) ==
  [k \in 1..Len(text) |->
     IF text[k] \in DOMAIN HOMOGLYPH_SAFE_MAP THEN HOMOGLYPH_SAFE_MAP[text[k]] ELSE text[k]]

RECURSIVE clamp_marks_keeps_all_tones(_, _)
\* A faulty variant: the clamp keeps every tone mark.
clamp_marks_keeps_all_tones(marks, seen_tone) ==
  IF marks = <<>> THEN <<>>
  ELSE LET m == Head(marks)
       IN  IF m \in COMBINING_TONE_MARKS \/ m \in COMBINING_MAJOR_VIET
           THEN <<m>> \o clamp_marks_keeps_all_tones(Tail(marks), seen_tone)
           ELSE clamp_marks_keeps_all_tones(Tail(marks), seen_tone)

RECURSIVE clamp_marks_drops_circumflex(_, _)
\* A faulty variant: the clamp forgets that the circumflex is a Vietnamese mark.
clamp_marks_drops_circumflex(marks, seen_tone) ==
  IF marks = <<>> THEN <<>>
  ELSE LET m == Head(marks)
       IN  IF m \in COMBINING_TONE_MARKS
           THEN (IF ~seen_tone THEN <<m>> ELSE <<>>)
                \o clamp_marks_drops_circumflex(Tail(marks), TRUE)
           ELSE IF m \in {774, 795}
           THEN <<m>> \o clamp_marks_drops_circumflex(Tail(marks), seen_tone)
           ELSE clamp_marks_drops_circumflex(Tail(marks), seen_tone)

RECURSIVE clamp_marks_keeps_unsupported(_, _)
\* A faulty variant: the clamp drops the extra tone marks only and keeps the
\* marks outside the Vietnamese set.
clamp_marks_keeps_unsupported(marks, seen_tone) ==
  IF marks = <<>> THEN <<>>
  ELSE LET m == Head(marks)
       IN  IF m \in COMBINING_TONE_MARKS
           THEN (IF ~seen_tone THEN <<m>> ELSE <<>>)
                \o clamp_marks_keeps_unsupported(Tail(marks), TRUE)
           ELSE <<m>> \o clamp_marks_keeps_unsupported(Tail(marks), seen_tone)

RECURSIVE clamp_marks_keeps_last_tone(_, _)
\* A faulty variant: of several tone marks the clamp keeps the last one.
clamp_marks_keeps_last_tone(marks, seen_tone) ==
  IF marks = <<>> THEN <<>>
  ELSE LET m == Head(marks)
       IN  IF m \in COMBINING_TONE_MARKS
           THEN (IF Filter(Tail(marks), COMBINING_TONE_MARKS) = <<>> THEN <<m>> ELSE <<>>)
                \o clamp_marks_keeps_last_tone(Tail(marks), TRUE)
           ELSE IF m \in COMBINING_MAJOR_VIET
           THEN <<m>> \o clamp_marks_keeps_last_tone(Tail(marks), seen_tone)
           ELSE clamp_marks_keeps_last_tone(Tail(marks), seen_tone)

RECURSIVE clamp_marks(_, _)
\* The marks the clamp keeps: the first tone mark and every circumflex, breve
\* and horn, in their order.
clamp_marks(marks, seen_tone) ==
  IF marks = <<>> THEN <<>>
  ELSE LET m == Head(marks)
       IN  IF m \in COMBINING_TONE_MARKS
           THEN (IF ~seen_tone THEN <<m>> ELSE <<>>) \o clamp_marks(Tail(marks), TRUE)
           ELSE IF m \in COMBINING_MAJOR_VIET
           THEN <<m>> \o clamp_marks(Tail(marks), seen_tone)
           ELSE clamp_marks(Tail(marks), seen_tone)

\* What the clamp appends to out_chars for one character.
clamp_char(ch) ==
  IF ~isalpha(ch) THEN <<ch>>
  ELSE NFC(<<base_of(ch)>> \o clamp_marks(marks_of(ch), FALSE))

clamp_to_single_tone_per_letter(text) ==
  Concat([k \in 1..Len(text) |-> clamp_char(text[k])])

\* re.search(r"(ng|nh|ch|[bcd(d-stroke)ghklmnpqrstvx])$", low)
HEURISTIC_CODA_CLASS ==
  {98, 99, 100, 273, 103, 104, 107, 108, 109, 110, 112, 113, 114, 115, 116, 118, 120}

heuristic_has_coda(low) ==
  \/ EndsWith(low, <<110, 103>>)
  \/ EndsWith(low, <<110, 104>>)
  \/ EndsWith(low, <<99, 104>>)
  \/ (Len(low) > 0 /\ low[Len(low)] \in HEURISTIC_CODA_CLASS)

\* The first index whose base lower-cases to base_needed and carries mark_needed.
heuristic_find(chars, base_needed, mark_needed) ==
  LET hits == {i \in 0..(Len(chars) - 1) :
                 /\ lower_char(base_of(At(chars, i))) = <<base_needed>>
                 /\ InStr(mark_needed, marks_of(At(chars, i)))}
  IN  IF hits = {} THEN None ELSE MinOf(hits)

RECURSIVE heuristic_coda_rule(_, _)
heuristic_coda_rule(chars, targets) ==
  IF targets = <<>> THEN None
  ELSE LET idx == heuristic_find(chars, Head(targets)[1], Head(targets)[2])
       IN  IF idx # None THEN idx ELSE heuristic_coda_rule(chars, Tail(targets))

RECURSIVE heuristic_cluster_rule_ignores_marks(_, _, _)
\* A faulty variant: the cluster patterns are searched in the base letters of the token.
heuristic_cluster_rule_ignores_marks(chars, low, pats) ==
  IF pats = <<>> THEN None
  ELSE LET pos == Find(lower([k \in 1..Len(chars) |-> base_of(chars[k])]), Head(pats))
           second == pos + 1
       IN  IF /\ pos # 0 - 1
              /\ second < Len(chars)
              /\ Contains(LOWER_VOWELS, lower_char(base_of(At(chars, second))))
           THEN second
           ELSE heuristic_cluster_rule_ignores_marks(chars, low, Tail(pats))

RECURSIVE heuristic_cluster_rule_no_vowel_check(_, _, _)
\* A faulty variant: the letter after the start of the cluster is returned
\* without the check that it is a vowel.
heuristic_cluster_rule_no_vowel_check(chars, low, pats) ==
  IF pats = <<>> THEN None
  ELSE LET pos == Find(low, Head(pats))
           second == pos + 1
       IN  IF pos # 0 - 1 /\ second < Len(chars)
           THEN second
           ELSE heuristic_cluster_rule_no_vowel_check(chars, low, Tail(pats))

RECURSIVE heuristic_cluster_rule(_, _, _)
heuristic_cluster_rule(chars, low, pats) ==
  IF pats = <<>> THEN None
  ELSE LET pos == Find(low, Head(pats))
           second == pos + 1
       IN  IF /\ pos # 0 - 1
              /\ second < Len(chars)
              /\ Contains(LOWER_VOWELS, lower_char(base_of(At(chars, second))))
           THEN second
           ELSE heuristic_cluster_rule(chars, low, Tail(pats))

\* A faulty variant: the rule for a token with exactly one vowel letter is missing.
expected_tone_index_heuristic_no_single_vowel_rule(token) ==
  LET chars == token
      vowels == {i \in 0..(Len(chars) - 1) : base_of(At(chars, i)) \in VOWELS_BASE}
      preferred == {i \in vowels :
                      \E k \in 1..Len(marks_of(At(chars, i))) :
                         marks_of(At(chars, i))[k] \in {770, 774, 795}}
      low == lower(token)
      has_coda == heuristic_has_coda(low)
      uye == IF Find(low, <<117, 121, 234>>) # 0 - 1
             THEN heuristic_find(chars, 101, 770)
             ELSE None
      coda == IF has_coda
              THEN heuristic_coda_rule(chars, <<<<101, 770>>, <<111, 770>>, <<111, 795>>>>)
              ELSE None
      any_a == {i \in 0..(Len(chars) - 1) : lower_char(base_of(At(chars, i))) = <<97>>}
      open == IF /\ ~has_coda
                 /\ (\/ EndsWith(low, <<105, 97>>) \/ EndsWith(low, <<117, 97>>)
                     \/ EndsWith(low, <<432, 97>>))
                 /\ any_a # {}
              THEN MaxOf(any_a)
              ELSE None
  IN  IF vowels = {} THEN None
      ELSE IF Cardinality(preferred) = 1 THEN MinOf(preferred)
      ELSE IF uye # None THEN uye
      ELSE IF coda # None THEN coda
      ELSE IF open # None THEN open
      ELSE heuristic_cluster_rule(chars, low, <<<<111, 97>>, <<111, 101>>, <<117, 121>>>>)

expected_tone_index_heuristic(token) ==
  LET chars == token
      vowels == {i \in 0..(Len(chars) - 1) : base_of(At(chars, i)) \in VOWELS_BASE}
      preferred == {i \in vowels :
                      \E k \in 1..Len(marks_of(At(chars, i))) :
                         marks_of(At(chars, i))[k] \in {770, 774, 795}}
      low == lower(token)
      has_coda == heuristic_has_coda(low)
      uye == IF Find(low, <<117, 121, 234>>) # 0 - 1
             THEN heuristic_find(chars, 101, 770)
             ELSE None
      coda == IF has_coda
              THEN heuristic_coda_rule(chars, <<<<101, 770>>, <<111, 770>>, <<111, 795>>>>)
              ELSE None
      any_a == {i \in 0..(Len(chars) - 1) : lower_char(base_of(At(chars, i))) = <<97>>}
      open == IF /\ ~has_coda
                 /\ (\/ EndsWith(low, <<105, 97>>) \/ EndsWith(low, <<117, 97>>)
                     \/ EndsWith(low, <<432, 97>>))
                 /\ any_a # {}
              THEN MaxOf(any_a)
              ELSE None
  IN  IF vowels = {} THEN None
      ELSE IF Cardinality(vowels) = 1 THEN MinOf(vowels)
      ELSE IF Cardinality(preferred) = 1 THEN MinOf(preferred)
      ELSE IF uye # None THEN uye
      ELSE IF coda # None THEN coda
      ELSE IF open # None THEN open
      ELSE heuristic_cluster_rule(chars, low, <<<<111, 97>>, <<111, 101>>, <<117, 121>>>>)

\* A faulty variant: the early return for a tone that already sits at the expected
\* index is missing, and the tone mark is taken off its letter.
move_tone_mark_within_token_no_equal_guard(token) ==
  LET tone_positions == _tone_positions_in_token(token)
      tone_idx == tone_positions[1]
      expected_idx == expected_tone_index_heuristic(token)
      marks == Filter(marks_of(At(token, tone_idx)),
                      {c \in Universe : c \notin COMBINING_TONE_MARKS})
      new_tone_char == NFC(<<base_of(At(token, tone_idx))>> \o marks)
      base_e == base_of(At(token, expected_idx))
      marks_e == marks_of(At(token, expected_idx))
      orig_tones == Filter(marks_of(At(token, tone_idx)), COMBINING_TONE_MARKS)
      marks_e2 == IF orig_tones # <<>> /\ Filter(marks_e, COMBINING_TONE_MARKS) = <<>>
                  THEN Append(marks_e, orig_tones[1])
                  ELSE marks_e
      new_expected_char == NFC(<<base_e>> \o marks_e2)
  IN  IF Len(tone_positions) # 1 THEN token
      ELSE IF expected_idx = None THEN token
      ELSE Concat([k \in 1..Len(token) |->
             IF k - 1 = tone_idx THEN new_tone_char
             ELSE IF k - 1 = expected_idx THEN new_expected_char
             ELSE <<token[k]>>])

\* A faulty variant: the tone mark is added to the expected letter and left on the
\* letter that carried it.
move_tone_mark_within_token_keeps_source_tone(token) ==
  LET tone_positions == _tone_positions_in_token(token)
      tone_idx == tone_positions[1]
      expected_idx == expected_tone_index_heuristic(token)
      base_e == base_of(At(token, expected_idx))
      marks_e == marks_of(At(token, expected_idx))
      orig_tones == Filter(marks_of(At(token, tone_idx)), COMBINING_TONE_MARKS)
      marks_e2 == IF orig_tones # <<>> /\ Filter(marks_e, COMBINING_TONE_MARKS) = <<>>
                  THEN Append(marks_e, orig_tones[1])
                  ELSE marks_e
      new_expected_char == NFC(<<base_e>> \o marks_e2)
  IN  IF Len(tone_positions) # 1 THEN token
      ELSE IF expected_idx = None \/ expected_idx = tone_idx THEN token
      ELSE Concat([k \in 1..Len(token) |->
             IF k - 1 = expected_idx THEN new_expected_char ELSE <<token[k]>>])

\* A faulty variant: the expected letter loses the marks it had and carries the
\* tone mark alone.
move_tone_mark_within_token_drops_target_marks(token) ==
  LET tone_positions == _tone_positions_in_token(token)
      tone_idx == tone_positions[1]
      expected_idx == expected_tone_index_heuristic(token)
      marks == Filter(marks_of(At(token, tone_idx)),
                      {c \in Universe : c \notin COMBINING_TONE_MARKS})
      new_tone_char == NFC(<<base_of(At(token, tone_idx))>> \o marks)
      base_e == base_of(At(token, expected_idx))
      orig_tones == Filter(marks_of(At(token, tone_idx)), COMBINING_TONE_MARKS)
      new_expected_char == NFC(<<base_e>> \o <<orig_tones[1]>>)
  IN  IF Len(tone_positions) # 1 THEN token
      ELSE IF expected_idx = None \/ expected_idx = tone_idx THEN token
      ELSE Concat([k \in 1..Len(token) |->
             IF k - 1 = tone_idx THEN new_tone_char
             ELSE IF k - 1 = expected_idx THEN new_expected_char
             ELSE <<token[k]>>])

move_tone_mark_within_token(token) ==
  LET tone_positions == _tone_positions_in_token(token)
      tone_idx == tone_positions[1]
      expected_idx == expected_tone_index_heuristic(token)
      marks == Filter(marks_of(At(token, tone_idx)),
                      {c \in Universe : c \notin COMBINING_TONE_MARKS})
      new_tone_char == NFC(<<base_of(At(token, tone_idx))>> \o marks)
      base_e == base_of(At(token, expected_idx))
      marks_e == marks_of(At(token, expected_idx))
      orig_tones == Filter(marks_of(At(token, tone_idx)), COMBINING_TONE_MARKS)
      marks_e2 == IF orig_tones # <<>> /\ Filter(marks_e, COMBINING_TONE_MARKS) = <<>>
                  THEN Append(marks_e, orig_tones[1])
                  ELSE marks_e
      new_expected_char == NFC(<<base_e>> \o marks_e2)
  IN  IF Len(tone_positions) # 1 THEN token
      ELSE IF expected_idx = None \/ expected_idx = tone_idx THEN token
      ELSE Concat([k \in 1..Len(token) |->
             IF k - 1 = tone_idx THEN new_tone_char
             ELSE IF k - 1 = expected_idx THEN new_expected_char
             ELSE <<token[k]>>])

RECURSIVE fix_tokens(_, _, _)
\* The loop of fix_tone_placement_in_text over the matches ms from last_end on.
fix_tokens(text, ms, last_end) ==
  IF ms = <<>> THEN Slice(text, last_end, Len(text))
  ELSE Slice(text, last_end, Head(ms).start)
       \o move_tone_mark_within_token(Head(ms).group)
       \o fix_tokens(text, Tail(ms), Head(ms).end)

fix_tone_placement_in_text(text) == fix_tokens(text, finditer(text), 0)

normalize_nfc(text) == NFC(text)

(***************************************************************************)
(* The pipeline validate_and_fix_vietnamese_text, one action per step.     *)
(***************************************************************************)

\* The longest raw text of each specification.
MaxLen == 3

MaxLenTone == 4

MaxLenCoda == 3

MaxLenCluster == 4

MaxLenMove == 4

MaxLenMarks == 4

\* The longest context before and after a scenario token.
MaxCtx == 1

\* Raw code points of Spec: a, d, o-tilde, e-circumflex, combining acute,
\* combining diaeresis, combining caron, combining short stroke overlay,
\* ZWSP, NBSP, Cyrillic a, space.
ALPHABET == {97, 100, 245, 234, 769, 776, 780, 821, 8203, 160, 1072, 32}

\* Raw code points of SpecTone: o, a, a-acute, u, y, e-circumflex, n, hyphen.
TONE_ALPHABET == {111, 97, 225, 117, 121, 234, 110, 45}

\* Raw code points of SpecCoda: e-circumflex, o-circumflex, y-acute,
\* e-circumflex-acute, u, y, a, n, space.
CODA_ALPHABET == {234, 244, 253, 7871, 117, 121, 97, 110, 32}

\* Raw code points of SpecCluster: I-dot-above, o, a, e, u, y, y-acute, n.
CLUSTER_ALPHABET == {304, 111, 97, 101, 117, 121, 253, 110}

\* Raw code points of SpecMove: a, a-acute, a-dot-below, e-breve, e-circumflex, space.
MOVE_ALPHABET == {97, 225, 7841, 277, 234, 32}

\* Raw code points of SpecMarks: u, u-diaeresis, d, combining acute, combining
\* tilde, combining caron, combining horn, space.
MARKS_ALPHABET == {117, 252, 100, 769, 771, 780, 795, 32}

TextsUpTo(alphabet, n) == UNION {[1..k -> alphabet] : k \in 0..n}

\* u y e-circumflex n with the tone mark tone on the letter at index pos.
UyenToken(pos, tone) ==
  [k \in 1..4 |->
     IF k - 1 = pos THEN NFC(<<(<<117, 121, 234, 110>>)[k], tone>>)[1]
     ELSE (<<117, 121, 234, 110>>)[k]]

\* The tokens "uyen" with one tone mark carried by u, y or n.
UYEN_TOKENS ==
  {UyenToken(pos, tone) : <<pos, tone>> \in
     {pt \in {0, 1, 3} \X COMBINING_TONE_MARKS : Len(NFC(<<(<<117, 121, 234, 110>>)[pt[1] + 1], pt[2]>>)) = 1}}

\* h o a with a grave accent on each letter in turn, and m a-grave.
HOA_TOKENS == {<<104, 111, 224>>, <<104, 242, 97>>, <<104, 768, 111, 97>>}

SCENARIO_TOKENS == UYEN_TOKENS \cup HOA_TOKENS \cup {<<109, 224>>}

\* Contexts: text that ends (starts) with a space so that the token stays a token.
CONTEXTS_BEFORE == {<<>>} \cup {c \o <<32>> : c \in TextsUpTo({98, 224}, MaxCtx - 1)}

CONTEXTS_AFTER == {<<>>} \cup {<<32>> \o c : c \in TextsUpTo({98, 224}, MaxCtx - 1)}

SCENARIO_TEXTS ==
  {pre \o tok \o post : pre \in CONTEXTS_BEFORE, tok \in SCENARIO_TOKENS, post \in CONTEXTS_AFTER}

InitWith(texts) ==
  /\ raw_text \in texts
  /\ pc = "start"
  /\ nfc_text = <<>>
  /\ initial_report = <<>>
  /\ fixed = <<>>
  /\ final_report = <<>>
  /\ reapplied = FALSE

Init == InitWith(TextsUpTo(ALPHABET, MaxLen))

InitTone == InitWith(TextsUpTo(TONE_ALPHABET, MaxLenTone))

InitCoda == InitWith(TextsUpTo(CODA_ALPHABET, MaxLenCoda))

InitScenario == InitWith(SCENARIO_TEXTS)

InitCluster == InitWith(TextsUpTo(CLUSTER_ALPHABET, MaxLenCluster))

InitMove == InitWith(TextsUpTo(MOVE_ALPHABET, MaxLenMove))

InitMarks == InitWith(TextsUpTo(MARKS_ALPHABET, MaxLenMarks))

Normalize ==
  /\ pc = "start"
  /\ nfc_text' = normalize_nfc(raw_text)
  /\ pc' = "normalized"
  /\ UNCHANGED <<raw_text, initial_report, fixed, final_report, reapplied>>

ValidateInitial ==
  /\ pc = "normalized"
  /\ initial_report' = validate_vietnamese_text(nfc_text)
  /\ fixed' = nfc_text
  /\ pc' = "validated"
  /\ UNCHANGED <<raw_text, nfc_text, final_report, reapplied>>

StripInvisible ==
  /\ pc = "validated"
  /\ fixed' = strip_invisible_characters(fixed)
  /\ pc' = "stripped"
  /\ UNCHANGED <<raw_text, nfc_text, initial_report, final_report, reapplied>>

ReplaceHomoglyphs ==
  /\ pc = "stripped"
  /\ fixed' = replace_safe_homoglyphs(fixed)
  /\ pc' = "replaced"
  /\ UNCHANGED <<raw_text, nfc_text, initial_report, final_report, reapplied>>

ClampTones ==
  /\ pc = "replaced"
  /\ fixed' = clamp_to_single_tone_per_letter(fixed)
  /\ pc' = "clamped"
  /\ UNCHANGED <<raw_text, nfc_text, initial_report, final_report, reapplied>>

FixTonePlacement ==
  /\ pc = "clamped"
  /\ fixed' = fix_tone_placement_in_text(fixed)
  /\ pc' = "moved"
  /\ UNCHANGED <<raw_text, nfc_text, initial_report, final_report, reapplied>>

\* A faulty variant: the final validation analyses the text before the fixes.
ValidateFinal_on_prefix_text ==
  /\ pc = "moved"
  /\ final_report' = validate_vietnamese_text(nfc_text)
  /\ pc' = "done"
  /\ UNCHANGED <<raw_text, nfc_text, initial_report, fixed, reapplied>>

ValidateFinal ==
  /\ pc = "moved"
  /\ final_report' = validate_vietnamese_text(fixed)
  /\ pc' = "done"
  /\ UNCHANGED <<raw_text, nfc_text, initial_report, fixed, reapplied>>

\* The caller passes the returned text to the pipeline again.
Reapply ==
  /\ pc = "done"
  /\ raw_text' = fixed
  /\ pc' = "start"
  /\ nfc_text' = <<>>
  /\ initial_report' = <<>>
  /\ fixed' = <<>>
  /\ final_report' = <<>>
  /\ reapplied' = TRUE

Next ==
  \/ Normalize
  \/ ValidateInitial
  \/ StripInvisible
  \/ ReplaceHomoglyphs
  \/ ClampTones
  \/ FixTonePlacement
  \/ ValidateFinal
  \/ Reapply

Spec == Init /\ [][Next]_vars

SpecTone == InitTone /\ [][Next]_vars

SpecCoda == InitCoda /\ [][Next]_vars

SpecScenario == InitScenario /\ [][Next]_vars

SpecCluster == InitCluster /\ [][Next]_vars

SpecMove == InitMove /\ [][Next]_vars

SpecMarks == InitMarks /\ [][Next]_vars

(***************************************************************************)
(* Properties.                                                             *)
(***************************************************************************)

\* The characters of a text, as a set.
Chars(text) == {text[k] : k \in 1..Len(text)}

\* The code points of the canonical decompositions of the characters of a text.
DecompositionCodepoints(text) ==
  UNION {{nfd_char(text[k])[j] : j \in 1..Len(nfd_char(text[k]))} : k \in 1..Len(text)}

\* The Latin replacements of the mapped homoglyphs that occur in a text.
Replacements(text) == {HOMOGLYPH_SAFE_MAP[c] : c \in Chars(text) \cap DOMAIN HOMOGLYPH_SAFE_MAP}

\* The issues of one kind in a report, as a set of positions in the report.
IssuesOfType(report, issue_type) ==
  {k \in 1..Len(report) : report[k].issue_type = issue_type}

\* The four fix passes of the pipeline, in order.
FourPassFix(text) ==
  fix_tone_placement_in_text(
    clamp_to_single_tone_per_letter(
      replace_safe_homoglyphs(strip_invisible_characters(text))))

\* The text on which the tone-relocation pass runs.
BeforeRelocation(text) ==
  clamp_to_single_tone_per_letter(
    replace_safe_homoglyphs(strip_invisible_characters(text)))

\* C1: fixing is idempotent.  When the pipeline is run on a text that an
\* earlier run returned (and normalisation leaves that text as it is), the
\* four passes return it unchanged: fix(fix(T)) = fix(T).
C1_FixIdempotent ==
  (pc = "done" /\ reapplied /\ nfc_text = raw_text) => fixed = raw_text

\* C2: after the strip pass and after every later pass the text holds no
\* invisible code point, and the final report holds no INVISIBLE_CHAR issue.
C2_NoInvisibleAfterFix ==
  /\ pc \in {"stripped", "replaced", "clamped", "moved", "done"}
       => Chars(fixed) \cap INVISIBLE_CODEPOINTS = {}
  /\ pc = "done" => IssuesOfType(final_report, "INVISIBLE_CHAR") = {}

\* A run that ended on a text that held an invisible code point between
\* other characters.
C2_Witness ==
  /\ pc = "done"
  /\ Chars(nfc_text) \cap INVISIBLE_CODEPOINTS # {}
  /\ IssuesOfType(initial_report, "INVISIBLE_CHAR") # {}
  /\ fixed # <<>>

\* C3: once the clamp pass has run, and still after the relocation pass,
\* the canonical decomposition of every character of the text holds at most
\* one tone mark.
C3_SingleTone ==
  pc \in {"clamped", "moved", "done"} =>
    \A k \in 1..Len(fixed) : Len(Filter(nfd_char(fixed[k]), COMBINING_TONE_MARKS)) <= 1

\* A run on a text with a letter that carried two tone marks, in which the
\* relocation pass then moved the remaining tone mark to another letter.
C3_Witness ==
  /\ pc = "done"
  /\ \E k \in 1..Len(nfc_text) : Len(Filter(nfd_char(nfc_text[k]), COMBINING_TONE_MARKS)) > 1
  /\ fixed # BeforeRelocation(nfc_text)
  /\ \E k \in 1..Len(fixed) : Len(Filter(nfd_char(fixed[k]), COMBINING_TONE_MARKS)) = 1

\* C4 as stated: every character of the fixed text occurs in the input text
\* or is the Latin replacement of a mapped homoglyph of the input.
C4_OnlyInputCharacters ==
  pc = "done" => Chars(fixed) \subseteq (Chars(nfc_text) \cup Replacements(nfc_text))

\* C4 amended: every code point of the canonical decomposition of the fixed
\* text is a code point of the canonical decomposition of the input text or
\* the Latin replacement of a mapped homoglyph of the input; the clamp and
\* relocation passes recompose letters from those base letters and marks.
C4_OnlyInputBasesAndMarks ==
  pc \in {"validated", "stripped", "replaced", "clamped", "moved", "done"} =>
    DecompositionCodepoints(fixed) \subseteq
      (DecompositionCodepoints(nfc_text) \cup Replacements(nfc_text))

\* A run that replaced a homoglyph and recomposed a letter: the fixed text
\* holds a replacement and a character that the input text did not hold.
C4_Witness ==
  /\ pc = "done"
  /\ Chars(nfc_text) \cap DOMAIN HOMOGLYPH_SAFE_MAP # {}
  /\ \E c \in Chars(fixed) : c \notin (Chars(nfc_text) \cup Replacements(nfc_text))

\* A character whose canonical decomposition holds a tone mark after its base.
ToneBearing(ch) ==
  \E j \in 2..Len(nfd_char(ch)) : nfd_char(ch)[j] \in COMBINING_TONE_MARKS

TonePositions(token) == {i \in 0..(Len(token) - 1) : ToneBearing(At(token, i))}

\* The letters of a token whose base is a, e, i, o, u or y.
VowelPositions(token) ==
  {i \in 0..(Len(token) - 1) : base_of(At(token, i)) \in VOWELS_BASE}

\* A token with exactly one tone-bearing character, at the index the fixer's
\* resolver expects.
ToneAtExpected(token) ==
  /\ Cardinality(TonePositions(token)) = 1
  /\ expected_tone_index_heuristic(token) \in TonePositions(token)

\* The string t occurs in text.
OccursIn(t, text) ==
  \E o \in 0..(Len(text) - Len(t)) : Slice(text, o, o + Len(t)) = t

\* The string t is a token of text.
IsTokenOf(text, t) == \E k \in 1..Len(finditer(text)) : finditer(text)[k].group = t

\* Where the relocation pass writes the token that starts at index start.
RelocatedStart(text, start) == Len(fix_tone_placement_in_text(Slice(text, 0, start)))

\* No TONE_PLACEMENT issue of the report lies in the match m.
NoTonePlacementIn(report, m) ==
  \A k \in IssuesOfType(report, "TONE_PLACEMENT") :
    ~(m.start <= report[k].start /\ report[k].start < m.end)

\* C5 as stated: a token of the input text with exactly one tone-bearing
\* character at the expected index is found with its letters unchanged in
\* the fixed text.
C5_CorrectTokenUnchangedByFix ==
  pc = "done" =>
    \A k \in 1..Len(finditer(nfc_text)) :
      ToneAtExpected(finditer(nfc_text)[k].group)
        => OccursIn(finditer(nfc_text)[k].group, fixed)

\* C5 amended: the relocation pass copies unchanged every token of the text
\* it runs on (the text after the strip, homoglyph and clamp passes) that has
\* exactly one tone-bearing character at the expected index.
C5_RelocationKeepsCorrectToken ==
  [][pc = "clamped" =>
       \A k \in 1..Len(finditer(fixed)) :
         LET m == finditer(fixed)[k]
             o == RelocatedStart(fixed, m.start)
         IN  ToneAtExpected(m.group) => Slice(fixed', o, o + Len(m.group)) = m.group]_vars

\* The relocation pass has run on a token of two or more letters with its
\* one tone at the expected index, which an earlier pass had changed.
C5_Witness ==
  /\ pc = "moved"
  /\ BeforeRelocation(nfc_text) # nfc_text
  /\ \E k \in 1..Len(finditer(BeforeRelocation(nfc_text))) :
       LET m == finditer(BeforeRelocation(nfc_text))[k]
       IN  /\ ToneAtExpected(m.group)
           /\ Cardinality(VowelPositions(m.group)) >= 2
           /\ OccursIn(m.group, fixed)

\* C6: when the initial report of a run is empty, the fixed text is the NFC
\* text.
C6_CleanTextUnchanged ==
  (pc = "done" /\ initial_report = <<>>) => fixed = nfc_text

\* A run with an empty initial report on a text with a token of two or more
\* vowel letters, one of them toned, that the resolver resolves.
C6_Witness ==
  /\ pc = "done"
  /\ initial_report = <<>>
  /\ \E k \in 1..Len(finditer(nfc_text)) :
       LET token == finditer(nfc_text)[k].group
       IN  /\ Cardinality(TonePositions(token)) = 1
           /\ Cardinality(VowelPositions(token)) >= 2
           /\ expected_tone_index_heuristic(token) # None

HOA_TONE_ON_A == <<104, 111, 224>>

HOA_TONE_ON_O == <<104, 242, 97>>

\* C8 as stated: for the token h o a-grave the resolver returns index 1 and
\* the fixed text holds h o-grave a in its place.
C8_HoaRelocated ==
  (pc = "done" /\ IsTokenOf(nfc_text, HOA_TONE_ON_A)) =>
    /\ expected_tone_index_heuristic(HOA_TONE_ON_A) = 1
    /\ \A k \in 1..Len(finditer(nfc_text)) :
         LET m == finditer(nfc_text)[k]
         IN  m.group = HOA_TONE_ON_A => Slice(fixed, m.start, m.end) = HOA_TONE_ON_O

\* C8 amended: for the token h o a-grave both resolvers return None (the
\* pattern "oa" is searched in the lower-cased token, which holds a-grave),
\* no TONE_PLACEMENT issue is reported for it and the fixed text holds the
\* token unchanged.
C8_HoaUnresolved ==
  (pc = "done" /\ IsTokenOf(nfc_text, HOA_TONE_ON_A)) =>
    /\ expected_tone_index_heuristic(HOA_TONE_ON_A) = None
    /\ _expected_tone_index(HOA_TONE_ON_A) = None
    /\ \A k \in 1..Len(finditer(nfc_text)) :
         LET m == finditer(nfc_text)[k]
         IN  m.group = HOA_TONE_ON_A =>
               /\ Slice(fixed, m.start, m.end) = HOA_TONE_ON_A
               /\ NoTonePlacementIn(initial_report, m)
               /\ NoTonePlacementIn(final_report, m)

\* A run on a text that holds the token h o a-grave after a space.
C8_Witness ==
  /\ pc = "done"
  /\ IsTokenOf(nfc_text, HOA_TONE_ON_A)
  /\ Len(nfc_text) > Len(HOA_TONE_ON_A)
  /\ IsTokenOf(fixed, HOA_TONE_ON_A)

\* C9: for a token u y e-circumflex n with one tone mark on u, y or n, both
\* resolvers return the index of e-circumflex, and the fixed text holds in
\* its place u, y, e-circumflex with that tone mark, n.
C9_UyenRelocated ==
  pc = "done" =>
    \A pos \in {0, 1, 3}, tone \in COMBINING_TONE_MARKS :
      (UyenToken(pos, tone) \in UYEN_TOKENS /\ IsTokenOf(nfc_text, UyenToken(pos, tone))) =>
        /\ expected_tone_index_heuristic(UyenToken(pos, tone)) = 2
        /\ _expected_tone_index(UyenToken(pos, tone)) = 2
        /\ Len(NFC(<<234, tone>>)) = 1
        /\ Chars(nfd_char(NFC(<<234, tone>>)[1])) = {101, 770, tone}
        /\ \A k \in 1..Len(finditer(nfc_text)) :
             LET m == finditer(nfc_text)[k]
             IN  m.group = UyenToken(pos, tone) =>
                   Slice(fixed, m.start, m.end) = <<117, 121, NFC(<<234, tone>>)[1], 110>>

\* A run that moved the dot below from n to e-circumflex, in a token next
\* to a space.
C9_Witness ==
  /\ pc = "done"
  /\ IsTokenOf(nfc_text, UyenToken(3, 803))
  /\ IsTokenOf(fixed, <<117, 121, 7879, 110>>)
  /\ Len(fixed) > 4

\* The letter at index i carries a combining mark outside the allowed set:
\* in its decomposition, or as the combining character that follows it.
CarriesDisallowedMark(text, i) ==
  \/ \E j \in 1..Len(marks_of(At(text, i))) : marks_of(At(text, i))[j] \notin ALLOWED_COMBINING
  \/ /\ i + 1 < Len(text)
     /\ combining(At(text, i + 1)) > 0
     /\ At(text, i + 1) \notin ALLOWED_COMBINING

\* C10: every letter d or D of the text that carries a combining mark
\* outside the allowed set gets exactly one FAKE_LETTER issue at its position
\* in the initial report, and in the fixed text no letter d or D carries
\* such a mark.
C10_FakeDReportedAndRepaired ==
  pc = "done" =>
    /\ \A i \in 0..(Len(nfc_text) - 1) :
         (base_of(At(nfc_text, i)) \in {100, 68} /\ CarriesDisallowedMark(nfc_text, i)) =>
           Cardinality({k \in IssuesOfType(initial_report, "FAKE_LETTER") :
                          initial_report[k].start = i}) = 1
    /\ \A i \in 0..(Len(fixed) - 1) :
         base_of(At(fixed, i)) \in {100, 68} => ~CarriesDisallowedMark(fixed, i)

\* The tone marks of a token, in order.
ToneMarks(token) ==
  Concat([k \in 1..Len(token) |-> Filter(nfd_char(token[k]), COMBINING_TONE_MARKS)])

\* The token's only tone mark sits on its only vowel letter.
OnlyToneOnOnlyVowel(token) ==
  /\ Cardinality(VowelPositions(token)) = 1
  /\ Len(ToneMarks(token)) = 1
  /\ TonePositions(token) = VowelPositions(token)

\* C11 as stated: for a token of the input text with exactly one vowel
\* letter both resolvers return the index of that vowel, and when the token's
\* only tone mark sits on that vowel the fixed text holds the token unchanged.
C11_SingleVowelTokenUnchangedByFix ==
  pc = "done" =>
    \A k \in 1..Len(finditer(nfc_text)) :
      LET token == finditer(nfc_text)[k].group
      IN  Cardinality(VowelPositions(token)) = 1 =>
            /\ expected_tone_index_heuristic(token) \in VowelPositions(token)
            /\ _expected_tone_index(token) \in VowelPositions(token)
            /\ OnlyToneOnOnlyVowel(token) => OccursIn(token, fixed)

\* C11 amended: for a token with exactly one vowel letter, of the input text
\* and of the text the relocation pass runs on, both resolvers return the
\* index of that vowel, and when the token's only tone mark sits on that
\* vowel the relocation pass copies the token unchanged.
C11_SingleVowelRule ==
  [][/\ pc = "normalized" =>
          \A k \in 1..Len(finditer(nfc_text)) :
            LET token == finditer(nfc_text)[k].group
            IN  Cardinality(VowelPositions(token)) = 1 =>
                  /\ expected_tone_index_heuristic(token) \in VowelPositions(token)
                  /\ _expected_tone_index(token) \in VowelPositions(token)
     /\ pc = "clamped" =>
          \A k \in 1..Len(finditer(fixed)) :
            LET m == finditer(fixed)[k]
                o == RelocatedStart(fixed, m.start)
            IN  Cardinality(VowelPositions(m.group)) = 1 =>
                  /\ expected_tone_index_heuristic(m.group) \in VowelPositions(m.group)
                  /\ _expected_tone_index(m.group) \in VowelPositions(m.group)
                  /\ OnlyToneOnOnlyVowel(m.group)
                       => Slice(fixed', o, o + Len(m.group)) = m.group]_vars

\* The relocation pass has run on a token of two or more characters whose
\* only tone mark sits on its only vowel letter, in a text that an earlier
\* pass had changed.
C11_Witness ==
  /\ pc = "moved"
  /\ nfc_text # BeforeRelocation(nfc_text)
  /\ \E k \in 1..Len(finditer(fixed)) :
       LET token == finditer(fixed)[k].group
       IN  /\ Len(token) >= 2
           /\ OnlyToneOnOnlyVowel(token)
           /\ IsTokenOf(BeforeRelocation(nfc_text), token)

\* The INVISIBLE_CHAR issues of report are those of the invisible characters
\* of text: one issue with span [i, i+1) for each position i that holds an
\* invisible code point, and no other.
InvisibleIssuesMatch(report, text) ==
  /\ \A i \in 0..(Len(text) - 1) :
       Cardinality({k \in IssuesOfType(report, "INVISIBLE_CHAR") : report[k].start = i})
         = IF At(text, i) \in INVISIBLE_CODEPOINTS THEN 1 ELSE 0
  /\ \A k \in IssuesOfType(report, "INVISIBLE_CHAR") :
       /\ report[k].start \in 0..(Len(text) - 1)
       /\ report[k].end = report[k].start + 1

\* C12: the initial report holds exactly one INVISIBLE_CHAR issue, with span
\* [i, i+1), for each position i of the validated text that holds an
\* invisible code point, and no INVISIBLE_CHAR issue at another position; the
\* same holds of the final report and the fixed text.
C12_InvisibleScan ==
  /\ pc \in {"validated", "stripped", "replaced", "clamped", "moved", "done"}
       => InvisibleIssuesMatch(initial_report, nfc_text)
  /\ pc = "done" => InvisibleIssuesMatch(final_report, fixed)

\* The validated text is a, ZWSP, d and the initial report holds one
\* INVISIBLE_CHAR issue, with span [1, 2).
C12_Witness ==
  /\ pc = "validated"
  /\ nfc_text = <<97, 8203, 100>>
  /\ Cardinality(IssuesOfType(initial_report, "INVISIBLE_CHAR")) = 1
  /\ \A k \in IssuesOfType(initial_report, "INVISIBLE_CHAR") :
       initial_report[k].start = 1 /\ initial_report[k].end = 2

\* The place of an issue kind in the order of the scans.
KindRank(issue_type) ==
  CASE issue_type = "INVISIBLE_CHAR" -> 1
    [] issue_type = "CONFUSABLE" -> 2
    [] issue_type = "COMBINING" -> 3
    [] issue_type = "FAKE_LETTER" -> 4
    [] issue_type = "TONE_PLACEMENT" -> 5
    [] OTHER -> 0

\* The issues of a report are grouped by kind in the order of the scans, and
\* within a kind their start offsets do not decrease.
OrderedReport(report) ==
  \A j \in 1..Len(report), k \in 1..Len(report) :
    j < k =>
      /\ KindRank(report[j].issue_type) >= 1
      /\ KindRank(report[j].issue_type) <= KindRank(report[k].issue_type)
      /\ report[j].issue_type = report[k].issue_type => report[j].start <= report[k].start

\* C13: in the initial and in the final report all INVISIBLE_CHAR issues
\* precede all CONFUSABLE issues, which precede all COMBINING issues, which
\* precede all FAKE_LETTER issues, which precede all TONE_PLACEMENT issues, and
\* within each kind the start offsets are in non-decreasing order.
C13_IssueOrdering ==
  /\ pc \in {"validated", "stripped", "replaced", "clamped", "moved", "done"}
       => OrderedReport(initial_report)
  /\ pc = "done" => OrderedReport(final_report)

\* A report in which an issue of an earlier kind lies behind the position of
\* a later issue, and which holds two issues of one kind at two positions.
C13_Witness ==
  /\ pc = "validated"
  /\ \E j \in 1..Len(initial_report), k \in 1..Len(initial_report) :
       /\ j < k
       /\ initial_report[j].issue_type # initial_report[k].issue_type
       /\ initial_report[j].start > initial_report[k].start
  /\ \E j \in 1..Len(initial_report), k \in 1..Len(initial_report) :
       /\ j < k
       /\ initial_report[j].issue_type = initial_report[k].issue_type
       /\ initial_report[j].start < initial_report[k].start

\* The TONE_PLACEMENT issues of report whose span starts in the match m.
TonePlacementIssuesIn(report, m) ==
  {j \in IssuesOfType(report, "TONE_PLACEMENT") :
     m.start <= report[j].start /\ report[j].start < m.end}

\* The token has exactly one tone-bearing character and the validator's
\* resolver returns an index that is not the index of that character.
Misplaced(token) ==
  /\ Cardinality(TonePositions(token)) = 1
  /\ _expected_tone_index(token) # None
  /\ _expected_tone_index(token) \notin TonePositions(token)

\* The TONE_PLACEMENT issues of report are those of the tokens of text: one
\* issue, on the tone-bearing character, for each token with a misplaced
\* tone, none for another token and none outside the tokens.
TonePlacementIssuesMatch(report, text) ==
  /\ \A k \in 1..Len(finditer(text)) :
       LET m == finditer(text)[k]
           issues == TonePlacementIssuesIn(report, m)
       IN  IF Misplaced(m.group)
           THEN /\ Cardinality(issues) = 1
                /\ \A j \in issues :
                     /\ report[j].start - m.start \in TonePositions(m.group)
                     /\ report[j].end = report[j].start + 1
           ELSE issues = {}
  /\ \A j \in IssuesOfType(report, "TONE_PLACEMENT") :
       \E k \in 1..Len(finditer(text)) : j \in TonePlacementIssuesIn(report, finditer(text)[k])

\* C14: a report holds a TONE_PLACEMENT issue for a token of the validated
\* text if and only if the token has exactly one tone-bearing character and
\* the resolver returns an index other than that character's; there is then
\* one such issue, whose span is the one-character span of the tone-bearing
\* character.  A token with no or with several tone-bearing characters gets
\* none.
C14_TonePlacementScan ==
  /\ pc \in {"validated", "stripped", "replaced", "clamped", "moved", "done"}
       => TonePlacementIssuesMatch(initial_report, nfc_text)
  /\ pc = "done" => TonePlacementIssuesMatch(final_report, fixed)

\* A validated text whose token starts after a space and has a misplaced
\* tone, reported at its place in the text.
C14_Witness ==
  /\ pc = "validated"
  /\ \E k \in 1..Len(finditer(nfc_text)) :
       LET m == finditer(nfc_text)[k]
       IN  /\ m.start > 0
           /\ Misplaced(m.group)
           /\ \E j \in IssuesOfType(initial_report, "TONE_PLACEMENT") :
                initial_report[j].start > m.start

\* The character ch is one that an issue of the kind issue_type is about.
IssueIsAbout(issue_type, ch) ==
  CASE issue_type = "INVISIBLE_CHAR" -> ch \in INVISIBLE_CODEPOINTS
    [] issue_type = "CONFUSABLE" -> is_clearly_non_latin(ch)
    [] issue_type = "COMBINING" -> isalpha(ch) /\ marks_of(ch) # <<>>
    [] issue_type = "FAKE_LETTER" ->
         /\ base_of(ch) \in {100, 68, 111, 79, 117, 85}
         /\ \E j \in 1..Len(marks_of(ch)) : marks_of(ch)[j] \notin ALLOWED_COMBINING
    [] issue_type = "TONE_PLACEMENT" -> ToneBearing(ch)
    [] OTHER -> FALSE

\* Every issue of report has a one-character span inside text, on a
\* character that the issue is about, and its snippet is cut from text.
ValidSpans(report, text) ==
  \A k \in 1..Len(report) :
    /\ 0 <= report[k].start
    /\ report[k].start < report[k].end
    /\ report[k].end <= Len(text)
    /\ report[k].end = report[k].start + 1
    /\ IssueIsAbout(report[k].issue_type, At(text, report[k].start))
    /\ report[k].snippet = local_snippet(text, report[k].start, report[k].end)

\* C15: every issue of the initial report has a span [start, start + 1)
\* inside the NFC text, on the character the issue is about, and every issue
\* of the final report has such a span in the fixed text.
C15_ValidSpans ==
  /\ pc \in {"validated", "stripped", "replaced", "clamped", "moved", "done"}
       => ValidSpans(initial_report, nfc_text)
  /\ pc = "done" => ValidSpans(final_report, fixed)

\* A run whose fixes shortened the text: an issue of the initial report lies
\* behind the end of the fixed text, and the final report is not empty.
C15_Witness ==
  /\ pc = "done"
  /\ final_report # <<>>
  /\ \E k \in 1..Len(initial_report) : initial_report[k].start >= Len(fixed)

\* C16: for every token of the validated text the validator's resolver and
\* the fixer's resolver return the same value, and the tokens that get a
\* TONE_PLACEMENT issue in the initial report are the tokens that the fixed
\* text holds changed.
C16_SameResolver ==
  pc = "done" =>
    \A k \in 1..Len(finditer(nfc_text)) :
      LET m == finditer(nfc_text)[k]
      IN  /\ _expected_tone_index(m.group) = expected_tone_index_heuristic(m.group)
          /\ TonePlacementIssuesIn(initial_report, m) # {}
               <=> Slice(fixed, m.start, m.end) # m.group

\* The final consonants of the coda list: b c d d-stroke g h k l m n p q r s
\* t v x, and ng, nh, ch.
CODA_LETTERS ==
  {98, 99, 100, 273, 103, 104, 107, 108, 109, 110, 112, 113, 114, 115, 116, 118, 120}

\* The lower-cased token low ends with a consonant of the coda list.
EndsWithCoda(low) ==
  \/ (Len(low) > 0 /\ low[Len(low)] \in CODA_LETTERS)
  \/ EndsWith(low, <<110, 103>>)
  \/ EndsWith(low, <<110, 104>>)
  \/ EndsWith(low, <<99, 104>>)

\* The index in token of the character that gives position p of lower(token).
TokenIndexOf(token, p) ==
  MinOf({i \in 0..(Len(token) - 1) : Len(lower(Slice(token, 0, i + 1))) > p})

\* The characters of token with the lower-case base letter base that carry mark.
LettersWith(token, base, mark) ==
  {i \in 0..(Len(token) - 1) :
     /\ lower_char(base_of(At(token, i))) = <<base>>
     /\ InStr(mark, marks_of(At(token, i)))}

\* The vowel letters of token that carry a circumflex, a breve or a horn.
QualityVowels(token) ==
  {i \in VowelPositions(token) :
     \E j \in 1..Len(marks_of(At(token, i))) : marks_of(At(token, i))[j] \in COMBINING_MAJOR_VIET}

\* The index in token of the second letter of the leftmost occurrence of the
\* two-letter cluster pat in lower(token).
SecondOfCluster(token, pat) == TokenIndexOf(token, Find(lower(token), pat) + 1)

\* The rules of the resolver as a first-match-wins chain.
FirstMatchingRule(token) ==
  LET low == lower(token)
      vowels == VowelPositions(token)
      quality == QualityVowels(token)
      e_circ == LettersWith(token, 101, 770)
      o_circ == LettersWith(token, 111, 770)
      o_horn == LettersWith(token, 111, 795)
      a_letters == {i \in 0..(Len(token) - 1) : lower_char(base_of(At(token, i))) = <<97>>}
  IN  IF vowels = {} THEN None
      ELSE IF Cardinality(vowels) = 1 THEN MinOf(vowels)
      ELSE IF Cardinality(quality) = 1 THEN MinOf(quality)
      ELSE IF Contains(low, <<117, 121, 234>>) /\ e_circ # {} THEN MinOf(e_circ)
      ELSE IF EndsWithCoda(low) /\ e_circ # {} THEN MinOf(e_circ)
      ELSE IF EndsWithCoda(low) /\ o_circ # {} THEN MinOf(o_circ)
      ELSE IF EndsWithCoda(low) /\ o_horn # {} THEN MinOf(o_horn)
      ELSE IF /\ ~EndsWithCoda(low)
              /\ (\/ EndsWith(low, <<105, 97>>) \/ EndsWith(low, <<117, 97>>)
                  \/ EndsWith(low, <<432, 97>>))
           THEN MaxOf(a_letters)
      ELSE IF Contains(low, <<111, 97>>) THEN SecondOfCluster(token, <<111, 97>>)
      ELSE IF Contains(low, <<111, 101>>) THEN SecondOfCluster(token, <<111, 101>>)
      ELSE IF Contains(low, <<117, 121>>) THEN SecondOfCluster(token, <<117, 121>>)
      ELSE None

\* C17: for every token of the validated text, each resolver returns the
\* result of the first applicable rule of the chain: no vowel, one vowel, one
\* vowel with a quality mark, uy-e-circumflex, coda with e-circumflex, else
\* o-circumflex, else o-horn, open ia/ua/u-horn-a, then oa, else oe, else uy,
\* otherwise None.
C17_FirstMatchWins ==
  pc = "done" =>
    \A k \in 1..Len(finditer(nfc_text)) :
      LET token == finditer(nfc_text)[k].group
      IN  /\ expected_tone_index_heuristic(token) = FirstMatchingRule(token)
          /\ _expected_tone_index(token) = FirstMatchingRule(token)

\* C18: for every token of the validated text, each resolver treats the
\* token as having a coda exactly when its lower-cased form ends with a
\* consonant of the coda list; a token that ends in a vowel letter, a toned y
\* included, has no coda.
C18_CodaDetection ==
  pc = "done" =>
    \A k \in 1..Len(finditer(nfc_text)) :
      LET low == lower(finditer(nfc_text)[k].group)
      IN  /\ heuristic_has_coda(low) <=> EndsWithCoda(low)
          /\ validator_has_coda(low) <=> EndsWithCoda(low)

\* The character at index i of token is the second letter of a cluster
\* i e-circumflex, u o-circumflex or u-horn o-horn.
MiddleOfCodaCluster(token, i) ==
  /\ i >= 1
  /\ i < Len(token)
  /\ \/ /\ i \in LettersWith(token, 101, 770)
        /\ lower_char(base_of(At(token, i - 1))) = <<105>>
     \/ /\ i \in LettersWith(token, 111, 770)
        /\ lower_char(base_of(At(token, i - 1))) = <<117>>
     \/ /\ i \in LettersWith(token, 111, 795)
        /\ i - 1 \in LettersWith(token, 117, 795)

\* The token reaches the coda rule: it has a coda and is not resolved by the
\* single-vowel, the single-quality-mark or the uy-e-circumflex rule.
ReachesCodaRule(token) ==
  /\ Cardinality(VowelPositions(token)) >= 2
  /\ Cardinality(QualityVowels(token)) # 1
  /\ ~(Contains(lower(token), <<117, 121, 234>>) /\ LettersWith(token, 101, 770) # {})
  /\ EndsWithCoda(lower(token))

\* The token holds an e-circumflex, an o-circumflex or an o-horn.
HoldsCodaTarget(token) ==
  LettersWith(token, 101, 770) \cup LettersWith(token, 111, 770)
    \cup LettersWith(token, 111, 795) # {}

\* What the rules after the coda rule give for a token with a coda: the
\* second letter of oa, else oe, else uy, otherwise None.
AfterCodaRule(token) ==
  IF Contains(lower(token), <<111, 97>>) THEN SecondOfCluster(token, <<111, 97>>)
  ELSE IF Contains(lower(token), <<111, 101>>) THEN SecondOfCluster(token, <<111, 101>>)
  ELSE IF Contains(lower(token), <<117, 121>>) THEN SecondOfCluster(token, <<117, 121>>)
  ELSE None

\* C19: for every token of the validated text that reaches the coda rule and
\* holds an e-circumflex, o-circumflex or o-horn, each resolver either returns
\* the index of such a letter that directly follows i, u or u-horn
\* respectively, or is not resolved by the coda rule and returns what the
\* later rules give.
C19_CodaRuleOnlyInClusters ==
  pc = "done" =>
    \A k \in 1..Len(finditer(nfc_text)) :
      LET token == finditer(nfc_text)[k].group
      IN  (ReachesCodaRule(token) /\ HoldsCodaTarget(token)) =>
            /\ \/ MiddleOfCodaCluster(token, expected_tone_index_heuristic(token))
               \/ expected_tone_index_heuristic(token) = AfterCodaRule(token)
            /\ \/ MiddleOfCodaCluster(token, _expected_tone_index(token))
               \/ _expected_tone_index(token) = AfterCodaRule(token)

\* The token has two or more vowel letters and no rule before the oa/oe/uy
\* rule resolves it.
ReachesClusterRule(token) ==
  LET low == lower(token)
  IN  /\ Cardinality(VowelPositions(token)) >= 2
      /\ Cardinality(QualityVowels(token)) # 1
      /\ ~(Contains(low, <<117, 121, 234>>) /\ LettersWith(token, 101, 770) # {})
      /\ ~(EndsWithCoda(low) /\ HoldsCodaTarget(token))
      /\ ~(/\ ~EndsWithCoda(low)
           /\ (\/ EndsWith(low, <<105, 97>>) \/ EndsWith(low, <<117, 97>>)
               \/ EndsWith(low, <<432, 97>>)))

\* The lower-cased token holds oa, oe or uy.
HoldsCluster(token) ==
  \/ Contains(lower(token), <<111, 97>>)
  \/ Contains(lower(token), <<111, 101>>)
  \/ Contains(lower(token), <<117, 121>>)

\* C20: for every token of the validated text with two or more vowel
\* letters that no earlier rule resolves and whose lower-cased form holds oa,
\* oe or uy, each resolver returns the index in the token of the second letter
\* of that cluster, and that index holds a vowel letter.
C20_ClusterRule ==
  pc = "done" =>
    \A k \in 1..Len(finditer(nfc_text)) :
      LET token == finditer(nfc_text)[k].group
      IN  (ReachesClusterRule(token) /\ HoldsCluster(token)) =>
            /\ expected_tone_index_heuristic(token) = AfterCodaRule(token)
            /\ _expected_tone_index(token) = AfterCodaRule(token)
            /\ AfterCodaRule(token) \in VowelPositions(token)

\* The text on which the clamp pass runs.
BeforeClamp(text) == replace_safe_homoglyphs(strip_invisible_characters(text))

\* The positions of the marks the clamp is to keep: a tone mark with no tone
\* mark before it, and every circumflex, breve and horn.
KeptMarkPositions(marks) ==
  {k \in 1..Len(marks) :
     \/ marks[k] \in {770, 774, 795}
     \/ /\ marks[k] \in COMBINING_TONE_MARKS
        /\ \A j \in 1..(k - 1) : marks[j] \notin COMBINING_TONE_MARKS}

RECURSIVE SubsequenceAt(_, _, _)
\* The elements of s at the positions of P that are at least from, in order.
SubsequenceAt(s, P, from) ==
  IF from > Len(s) THEN <<>>
  ELSE (IF from \in P THEN <<s[from]>> ELSE <<>>) \o SubsequenceAt(s, P, from + 1)

\* ch_out is ch_in after the clamp: a non-alphabetic character is itself; an
\* alphabetic one is the composed character whose canonical decomposition is
\* the base of ch_in followed by the kept marks of ch_in.
ClampedFrom(ch_in, ch_out) ==
  IF ~isalpha(ch_in) THEN ch_out = ch_in
  ELSE /\ nfd_char(ch_out) =
            <<base_of(ch_in)>> \o
              SubsequenceAt(marks_of(ch_in), KeptMarkPositions(marks_of(ch_in)), 1)
       /\ NFC(<<ch_out>>) = <<ch_out>>

\* C21: the clamp pass writes one character for each character of its
\* input, in the same order: a non-alphabetic character unchanged, and for
\* an alphabetic character the recomposition of its base with its first tone
\* mark and its circumflex, breve and horn marks in their original order,
\* every other mark being dropped.
C21_ClampPass ==
  [][pc = "replaced" =>
       /\ Len(fixed') = Len(fixed)
       /\ \A k \in 1..Len(fixed) : ClampedFrom(fixed[k], fixed'[k])]_vars

\* The clamp has run on a text with a letter that carries two tone marks and
\* with a non-alphabetic character, and it changed the text.
C21_Witness ==
  /\ pc = "clamped"
  /\ \E k \in 1..Len(BeforeClamp(nfc_text)) :
       /\ isalpha(BeforeClamp(nfc_text)[k])
       /\ Len(Filter(marks_of(BeforeClamp(nfc_text)[k]), COMBINING_TONE_MARKS)) > 1
  /\ \E k \in 1..Len(BeforeClamp(nfc_text)) : ~isalpha(BeforeClamp(nfc_text)[k])
  /\ fixed # BeforeClamp(nfc_text)
  /\ Len(fixed) = Len(BeforeClamp(nfc_text))
  /\ \A k \in 1..Len(fixed) : ClampedFrom(BeforeClamp(nfc_text)[k], fixed[k])

\* A token the relocation pass is to change: exactly one tone-bearing
\* character, and the fixer's resolver names another index.
Relocatable(token) ==
  /\ Cardinality(TonePositions(token)) = 1
  /\ expected_tone_index_heuristic(token) # None
  /\ expected_tone_index_heuristic(token) \notin TonePositions(token)

\* The index of the tone-bearing character of a relocatable token.
ToneIndex(token) == CHOOSE t \in TonePositions(token) : TRUE

\* The first tone mark of a tone-bearing character.
ToneOf(ch) == Filter(marks_of(ch), COMBINING_TONE_MARKS)[1]

\* The marks of a character that are not tone marks, in order.
NonToneMarks(ch) == Filter(marks_of(ch), {c \in Universe : c \notin COMBINING_TONE_MARKS})

\* The text between the tokens of text, and after the last one, is found
\* unchanged in out, where the relocation pass wrote it.
GapsCopied(text, out) ==
  LET ms == finditer(text)
      gap_start(k) == IF k = 1 THEN 0 ELSE ms[k - 1].end
      gap_end(k) == IF k = Len(ms) + 1 THEN Len(text) ELSE ms[k].start
  IN  \A k \in 1..(Len(ms) + 1) :
        Slice(out, RelocatedStart(text, gap_start(k)), RelocatedStart(text, gap_end(k)))
          = Slice(text, gap_start(k), gap_end(k))

\* C22 as stated, with a character read as one code point of the text: in
\* the result of a relocated token, index t holds the old letter without its
\* tone mark, index e holds the old letter with its marks and the tone mark,
\* and every other index holds what it held.
C22_RelocationMovesOneMark ==
  [][pc = "clamped" =>
       /\ GapsCopied(fixed, fixed')
       /\ \A k \in 1..Len(finditer(fixed)) :
            LET m == finditer(fixed)[k]
                token == m.group
                o == RelocatedStart(fixed, m.start)
                r == Slice(fixed', o, o + Len(token))
                t == ToneIndex(token)
                e == expected_tone_index_heuristic(token)
            IN  Relocatable(token) =>
                  /\ base_of(At(r, t)) = base_of(At(token, t))
                  /\ marks_of(At(r, t)) = NonToneMarks(At(token, t))
                  /\ NFD(<<At(r, e)>>) = NFD(nfd_char(At(token, e)) \o <<ToneOf(At(token, t))>>)
                  /\ \A i \in 0..(Len(token) - 1) :
                       i \notin {t, e} => At(r, i) = At(token, i)]_vars

\* C22, amended: the letter at e is replaced by the recomposition of its
\* decomposition followed by the tone mark, which is one code point when
\* such a precomposed character exists and two code points otherwise; the
\* code points after it are then found one index later.
C22_RelocationMovesOneMarkRecomposed ==
  [][pc = "clamped" =>
       /\ GapsCopied(fixed, fixed')
       /\ \A k \in 1..Len(finditer(fixed)) :
            LET m == finditer(fixed)[k]
                token == m.group
                r == Slice(fixed', RelocatedStart(fixed, m.start), RelocatedStart(fixed, m.end))
                t == ToneIndex(token)
                e == expected_tone_index_heuristic(token)
                grown == Len(r) - Len(token)
                at(i) == IF i > e THEN i + grown ELSE i
                piece == Slice(r, e, e + 1 + grown)
            IN  Relocatable(token) =>
                  /\ grown \in {0, 1}
                  /\ base_of(At(r, at(t))) = base_of(At(token, t))
                  /\ marks_of(At(r, at(t))) = NonToneMarks(At(token, t))
                  /\ NFD(piece) = NFD(nfd_char(At(token, e)) \o <<ToneOf(At(token, t))>>)
                  /\ NFC(piece) = piece
                  /\ base_of(At(r, e)) = base_of(At(token, e))
                  /\ \A i \in 0..(Len(token) - 1) :
                       i \notin {t, e} => At(r, at(i)) = At(token, i)]_vars

\* The relocation pass has moved a tone mark to a letter with which it has no
\* precomposed character, in a text that also holds a space.
C22_Witness ==
  /\ pc = "moved"
  /\ \E k \in 1..Len(finditer(BeforeRelocation(nfc_text))) :
       Relocatable(finditer(BeforeRelocation(nfc_text))[k].group)
  /\ Len(fixed) > Len(BeforeRelocation(nfc_text))
  /\ \E k \in 1..Len(fixed) : fixed[k] = 32

\* The non-Latin letters of a text that are not keys of the homoglyph map,
\* in order.
UnmappedNonLatin(text) ==
  Filter(text, {c \in Universe : is_clearly_non_latin(c) /\ c \notin DOMAIN HOMOGLYPH_SAFE_MAP})

\* C23: the fixed text holds, in the same order, exactly the non-Latin
\* letters of the normalised input that are not keys of the homoglyph map:
\* fix leaves each of them as it is.
C23_UnmappedNonLatinUntouched ==
  pc = "done" => UnmappedNonLatin(fixed) = UnmappedNonLatin(nfc_text)

\* The COMBINING issues of a report at index i with the given message, as
\* positions in the report.
CombiningIssuesAt(report, i, message) ==
  {k \in IssuesOfType(report, "COMBINING") : report[k].start = i /\ report[k].message = message}

\* All COMBINING issues of a report at index i.
AllCombiningIssuesAt(report, i) ==
  {k \in IssuesOfType(report, "COMBINING") : report[k].start = i}

\* Rule (a) is violated: more than one tone mark.
SeveralTones(ch) ==
  Cardinality({k \in 1..Len(marks_of(ch)) : marks_of(ch)[k] \in COMBINING_TONE_MARKS}) > 1

\* Rule (b) is violated: marks on a base that is not a, e, i, o, u or y.
MarksOnNonVowel(ch) == marks_of(ch) # <<>> /\ base_of(ch) \notin VOWELS_BASE

\* The positions of the marks of ch outside the allowed set (rule (c)).
DisallowedMarkPositions(ch) ==
  {k \in 1..Len(marks_of(ch)) :
     marks_of(ch)[k] \notin (COMBINING_TONE_MARKS \cup {770, 774, 795})}

\* 1 for a violated rule, 0 otherwise.
One(violated) == IF violated THEN 1 ELSE 0

\* C24 as stated: a violated rule yields one COMBINING issue at the
\* character, so a character yields as many issues as it violates rules, at
\* most three, and a non-alphabetic character yields none.
CombiningOnePerRule(report, text) ==
  \A i \in 0..(Len(text) - 1) :
    LET ch == At(text, i)
    IN  /\ Cardinality(AllCombiningIssuesAt(report, i)) =
             (IF ~isalpha(ch) THEN 0
              ELSE One(SeveralTones(ch)) + One(MarksOnNonVowel(ch))
                   + One(DisallowedMarkPositions(ch) # {}))
        /\ Cardinality(AllCombiningIssuesAt(report, i)) <= 3

C24_CombiningOnePerRule ==
  /\ pc \notin {"start", "normalized"} => CombiningOnePerRule(initial_report, nfc_text)
  /\ pc = "done" => CombiningOnePerRule(final_report, fixed)

\* Rules (a) and (b) yield one issue each when violated, and rule (c) yields
\* one issue for each mark outside the allowed set, naming that mark, in the
\* order of the marks.
CombiningPerMark(report, text) ==
  \A i \in 0..(Len(text) - 1) :
    LET ch == At(text, i)
        a == CombiningIssuesAt(report, i, "A letter carries more than one tone mark.")
        b == CombiningIssuesAt(report, i, "Combining mark(s) applied on a non-vowel letter.")
        c == CombiningIssuesAt(report, i, "Unsupported combining mark for Vietnamese.")
        bad == DisallowedMarkPositions(ch)
    IN  /\ AllCombiningIssuesAt(report, i) = a \cup b \cup c
        /\ Cardinality(a) = One(isalpha(ch) /\ SeveralTones(ch))
        /\ Cardinality(b) = One(isalpha(ch) /\ MarksOnNonVowel(ch))
        /\ Cardinality(c) = (IF isalpha(ch) THEN Cardinality(bad) ELSE 0)
        /\ isalpha(ch) =>
             \A k \in bad :
               \E n \in c :
                 /\ report[n].arg = <<marks_of(ch)[k]>>
                 /\ Cardinality({j \in c : j < n}) = Cardinality({j \in bad : j < k})
        /\ \A x \in a, y \in b, z \in c : x < y /\ y < z
        /\ \A x \in a, z \in c : x < z

\* C24, amended: one issue for rule (a), one for rule (b), and one for each
\* disallowed mark for rule (c).
C24_CombiningPerMark ==
  /\ pc \notin {"start", "normalized"} => CombiningPerMark(initial_report, nfc_text)
  /\ pc = "done" => CombiningPerMark(final_report, fixed)

\* A validated text with a letter that carries two marks outside the allowed
\* set and is reported twice for them, and with a non-alphabetic character.
C24_Witness ==
  /\ pc = "validated"
  /\ \E i \in 0..(Len(nfc_text) - 1) :
       /\ isalpha(At(nfc_text, i))
       /\ Cardinality(DisallowedMarkPositions(At(nfc_text, i))) = 2
       /\ Cardinality(CombiningIssuesAt(initial_report, i,
                                        "Unsupported combining mark for Vietnamese.")) = 2
  /\ \E i \in 0..(Len(nfc_text) - 1) : ~isalpha(At(nfc_text, i))

\* The FAKE_LETTER issues of a report at index i, as positions in the report.
FakeLetterIssuesAt(report, i) ==
  {k \in IssuesOfType(report, "FAKE_LETTER") : report[k].start = i}

\* A character with marks, none of them the horn, and one of them neither a
\* tone mark nor the circumflex nor the breve.
MimicsHorn(ch) ==
  /\ marks_of(ch) # <<>>
  /\ \A k \in 1..Len(marks_of(ch)) : marks_of(ch)[k] # 795
  /\ \E k \in 1..Len(marks_of(ch)) :
       marks_of(ch)[k] \notin (COMBINING_TONE_MARKS \cup {770, 774})

FakeHornDetection(report, text) ==
  \A i \in 0..(Len(text) - 1) :
    base_of(At(text, i)) \in {111, 79, 117, 85} =>
      /\ FakeLetterIssuesAt(report, i) # {} <=> MimicsHorn(At(text, i))
      /\ Cardinality(FakeLetterIssuesAt(report, i)) <= 1
      /\ (\E k \in 1..Len(marks_of(At(text, i))) : marks_of(At(text, i))[k] = 795)
           => FakeLetterIssuesAt(report, i) = {}

\* C25: a character with base o, O, u or U is reported as FAKE_LETTER exactly
\* when it has marks, none of them the horn, and at least one of them is not
\* a tone mark, circumflex or breve; with the horn it is never reported.
C25_FakeHornDetection ==
  /\ pc \notin {"start", "normalized"} => FakeHornDetection(initial_report, nfc_text)
  /\ pc = "done" => FakeHornDetection(final_report, fixed)

\* A validated text with a u that carries a diaeresis and is reported, and a
\* u with the horn that is not.
C25_Witness ==
  /\ pc = "validated"
  /\ \E i \in 0..(Len(nfc_text) - 1) :
       /\ base_of(At(nfc_text, i)) = 117
       /\ MimicsHorn(At(nfc_text, i))
       /\ FakeLetterIssuesAt(initial_report, i) # {}
  /\ \E i \in 0..(Len(nfc_text) - 1) :
       /\ base_of(At(nfc_text, i)) = 117
       /\ \E k \in 1..Len(marks_of(At(nfc_text, i))) : marks_of(At(nfc_text, i))[k] = 795
       /\ FakeLetterIssuesAt(initial_report, i) = {}

\* The issues of a report with the given kind and message, as positions.
IssuesWithMessage(report, issue_type, message) ==
  {k \in IssuesOfType(report, issue_type) : report[k].message = message}

\* The mark-level defects that fix targets: a FAKE_LETTER issue, a COMBINING
\* issue for an unsupported mark, a COMBINING issue for several tone marks.
MarkDefects(report) ==
  IssuesOfType(report, "FAKE_LETTER")
    \cup IssuesWithMessage(report, "COMBINING", "Unsupported combining mark for Vietnamese.")
    \cup IssuesWithMessage(report, "COMBINING", "A letter carries more than one tone mark.")

\* C26: the final report of the pipeline holds no FAKE_LETTER issue, no
\* COMBINING issue for an unsupported mark and no COMBINING issue for more
\* than one tone mark on a letter.
C26_FixClearsMarkDefects ==
  pc = "done" => MarkDefects(final_report) = {}

\* A finished run whose initial report holds the three kinds of defect.
C26_Witness ==
  /\ pc = "done"
  /\ IssuesOfType(initial_report, "FAKE_LETTER") # {}
  /\ IssuesWithMessage(initial_report, "COMBINING",
                       "Unsupported combining mark for Vietnamese.") # {}
  /\ IssuesWithMessage(initial_report, "COMBINING",
                       "A letter carries more than one tone mark.") # {}
  /\ MarkDefects(final_report) = {}

\* r is None or the index of a vowel letter of the token, and None when the
\* token has no vowel letter.
ValidResolverResult(token, r) ==
  /\ r = None \/ (0 <= r /\ r < Len(token) /\ r \in VowelPositions(token))
  /\ VowelPositions(token) = {} => r = None

\* Both resolvers give a valid result for every token of the text.
ValidResolverResultsIn(text) ==
  LET tokens == finditer(text)
  IN  \A k \in 1..Len(tokens) :
        LET token == tokens[k].group
        IN  /\ ValidResolverResult(token, _expected_tone_index(token))
            /\ ValidResolverResult(token, expected_tone_index_heuristic(token))

\* C27: for every token of the text the validator scans (the normalised
\* text before the first validation, the fixed text before the last one) and
\* of the text the relocation pass scans, each of the two resolvers returns
\* None or the index of a vowel letter of the token, and None when the token
\* has no vowel letter.
C27_ResolverResultValid ==
  /\ pc = "normalized" => ValidResolverResultsIn(nfc_text)
  /\ pc \in {"clamped", "moved"} => ValidResolverResultsIn(fixed)

\* A finished run on a token with a letter whose lower case is two code
\* points and with several vowel letters, for which both resolvers name a
\* vowel letter.
C27_Witness ==
  /\ pc = "done"
  /\ \E k \in 1..Len(finditer(nfc_text)) :
       LET token == finditer(nfc_text)[k].group
       IN  /\ \E i \in 1..Len(token) : token[i] = 304
           /\ Cardinality(VowelPositions(token)) >= 3
           /\ expected_tone_index_heuristic(token) \in VowelPositions(token)
           /\ _expected_tone_index(token) \in VowelPositions(token)

\* C28: the fixed text holds no key of the homoglyph map.
C28_NoMappedHomoglyphSurvives ==
  pc = "done" => \A k \in 1..Len(fixed) : fixed[k] \notin DOMAIN HOMOGLYPH_SAFE_MAP

\* The resolver r leaves the token alone: it gives no verdict or names a
\* tone-bearing character.
SettledFor(token, r) == r = None \/ r \in TonePositions(token)

\* C29: every token that the relocation pass has changed is a fixed point:
\* each resolver, applied to the resulting token, returns None or the index
\* that now bears the tone, and the final report holds no TONE_PLACEMENT
\* issue inside that token.
C29_RelocatedToneSettled ==
  pc = "done" =>
    LET text == BeforeRelocation(nfc_text)
    IN  \A k \in 1..Len(finditer(text)) :
          LET m == finditer(text)[k]
              start == RelocatedStart(text, m.start)
              end == RelocatedStart(text, m.end)
              r == Slice(fixed, start, end)
          IN  Relocatable(m.group) =>
                /\ SettledFor(r, expected_tone_index_heuristic(r))
                /\ SettledFor(r, _expected_tone_index(r))
                /\ NoTonePlacementIn(final_report, [start |-> start, end |-> end])

\* C30: when the relocation pass moves a tone mark from index t to index e of
\* a token, no hyphen lies between the two indices.
C30_RelocationWithinSyllable ==
  [][pc = "clamped" =>
       \A k \in 1..Len(finditer(fixed)) :
         LET token == finditer(fixed)[k].group
             t == ToneIndex(token)
             e == expected_tone_index_heuristic(token)
         IN  Relocatable(token) =>
               \A i \in 0..(Len(token) - 1) :
                 (Min(t, e) < i /\ i < Max(t, e)) => At(token, i) # 45]_vars
====
